---- MODULE Spec2Model ----
(***************************************************************************)
(* HugeTextWidget (src/ui/long_text_widget.py): the virtualized log buffer *)
(* of the serial monitor.  Characters are code points, byte strings and    *)
(* texts are sequences of integers, lengths are in pixels of the font.     *)
(***************************************************************************)
EXTENDS Integers, Sequences, FiniteSets, TLC

VARIABLES
    lines,                      \* self._lines
    line_timestamps,            \* self._line_timestamps
    raw_bytes,                  \* self._raw_bytes
    line_offset,                \* self._line_offset
    max_lines,                  \* self._max_lines
    current_line_index,         \* self._current_line_index
    sel_start_pos,              \* self._sel_start_pos  (<<>> is None)
    sel_end_pos,                \* self._sel_end_pos    (<<>> is None)
    pending_update,             \* self._pending_update
    timer_active,               \* self._update_timer.isActive()
    timer_starts,               \* the calls of self._update_timer.start(50) on the armed
                                \* timer: every call after the first postpones the timeout
    auto_scroll,                \* self._auto_scroll
    show_timestamp,             \* self._show_timestamp
    filter_pattern,             \* self._filter_pattern
    filter_enabled,             \* self._filter_enabled
    filter_regex_str,           \* self._filter_regex_str
    filter_use_regex,           \* self._filter_use_regex
    filter_cache,               \* self._filter_cache
    wrapped_lines_cache,        \* self._wrapped_lines_cache
    cached_available_width,     \* self._cached_available_width
    highlight_cache,            \* self._highlight_cache
    cached_total_display_lines, \* self._cached_total_display_lines
    total_display_lines_dirty,  \* self._total_display_lines_dirty
    line_num_area_width,        \* self._line_num_area_width
    timestamp_width,            \* self._timestamp_width
    viewport_w,                 \* self.viewport().width()
    viewport_h,                 \* self.viewport().height()
    sb_max,                     \* self.verticalScrollBar().maximum()
    sb_value,                   \* self.verticalScrollBar().value()
    is_selecting,               \* self._is_selecting
    view_mode,                  \* self._view_mode
    highlight_rules,            \* self._highlight_rules
    highlight_enabled,          \* self._highlight_enabled
    clipboard,                  \* QGuiApplication.clipboard().text()
    now,                        \* time.time(), in ticks of the clock
    follow,                     \* history: "owed" while an append made at the bottom or with
                                \* auto-scroll waits for its refresh, "due" when that refresh has run
    session                     \* history: the chunks appended since the last clear() or
                                \* set_content(), concatenated

vars == << lines, line_timestamps, raw_bytes, line_offset, max_lines, current_line_index,
           sel_start_pos, sel_end_pos, pending_update, timer_active, timer_starts,
           auto_scroll, show_timestamp, filter_pattern, filter_enabled,
           filter_regex_str, filter_use_regex, filter_cache,
           wrapped_lines_cache, cached_available_width, highlight_cache,
           cached_total_display_lines, total_display_lines_dirty,
           line_num_area_width, timestamp_width, viewport_w, viewport_h,
           sb_max, sb_value, is_selecting, view_mode, highlight_rules,
           highlight_enabled, clipboard, now, follow, session >>

(***************************************************************************)
(* Bounds of the model                                                     *)
(***************************************************************************)
MaxChunk == 2        \* longest ordinary chunk given to append_raw_bytes
MaxRaw == 3          \* ordinary chunks are appended while the raw log is shorter
MaxBursts == 3       \* number of burst chunks appended
BurstLines == 40     \* lines of a burst chunk
MaxLineLen == 4      \* bytes appended in the wrapping runs

\* the longest list of highlight rules
MaxRules == 2

\* hex view: the length of a frame and the most bytes of a log
HexFrameLen == 20
MaxCopyRows == 3
MaxPlain == 4
MaxTime == 2         \* ticks of the clock
MaxHexBytes == 41

(***************************************************************************)
(* Characters                                                              *)
(***************************************************************************)
LF == 10
CR == 13
ChA == 97
ChDot == 46
ChLBracket == 91
ReplacementChar == 65533

Max(a, b) == IF a >= b THEN a ELSE b
Min(a, b) == IF a <= b THEN a ELSE b

\* math.ceil(a / b) for a >= 0, b > 0
CeilDiv(a, b) == (a + b - 1) \div b

None == <<>>

NoPattern == [kind |-> "none", src |-> <<>>]

(***************************************************************************)
(* Python and Qt primitives                                                *)
(***************************************************************************)
\* text[a:b] for 0 <= a, with Python's clipping of b
Slice(text, a, b) == SubSeq(text, a + 1, Min(b, Len(text)))

\* bytes.decode('utf-8', errors='replace') on byte strings without 3- and
\* 4-byte lead bytes: ASCII is kept, a well-formed 2-byte sequence gives its
\* code point, every other byte gives one U+FFFD
Utf8Wellformed2(b, i) == b[i] \in 194..223 /\ i < Len(b) /\ b[i + 1] \in 128..191

\* the code point decoded at position i and the number of bytes it takes
Utf8CharAt(b, i) ==
    IF b[i] < 128 THEN b[i]
    ELSE IF Utf8Wellformed2(b, i) THEN (b[i] - 192) * 64 + (b[i + 1] - 128)
    ELSE ReplacementChar

Utf8LenAt(b, i) == IF b[i] >= 128 /\ Utf8Wellformed2(b, i) THEN 2 ELSE 1

RECURSIVE Utf8From(_, _)
Utf8From(b, i) ==
    IF i > Len(b) THEN <<>> ELSE <<Utf8CharAt(b, i)>> \o Utf8From(b, i + Utf8LenAt(b, i))

Utf8Decode(b) == Utf8From(b, 1)

\* str.encode('utf-8', errors='replace') for code points of the basic plane
Utf8EncodeChar(c) ==
    IF c < 128 THEN <<c>>
    ELSE IF c < 2048 THEN <<192 + (c \div 64), 128 + (c % 64)>>
    ELSE <<224 + (c \div 4096), 128 + ((c \div 64) % 64), 128 + (c % 64)>>

RECURSIVE Utf8Encode(_)
Utf8Encode(text) ==
    IF text = <<>> THEN <<>> ELSE Utf8EncodeChar(Head(text)) \o Utf8Encode(Tail(text))

\* the line boundaries of str.splitlines()
IsLineBreak(c) == c \in {10, 11, 12, 13, 28, 29, 30, 133, 8232, 8233}

\* the last character of the line boundary that starts at i ("\r\n" is one)
BreakEnd(text, i) ==
    IF text[i] = CR /\ i < Len(text) /\ text[i + 1] = LF THEN i + 1 ELSE i

\* the first line boundary at or after i, Len(text) + 1 if there is none
RECURSIVE NextBreak(_, _)
NextBreak(text, i) ==
    IF i > Len(text) \/ IsLineBreak(text[i]) THEN i ELSE NextBreak(text, i + 1)

\* str.splitlines() of the text from position start on
RECURSIVE SplitFrom(_, _)
SplitFrom(text, start) ==
    IF start > Len(text) THEN <<>>
    ELSE IF NextBreak(text, start) > Len(text) THEN <<SubSeq(text, start, Len(text))>>
    ELSE <<SubSeq(text, start, NextBreak(text, start) - 1)>>
            \o SplitFrom(text, BreakEnd(text, NextBreak(text, start)) + 1)

splitlines(text) == SplitFrom(text, 1)

\* keyword in text
Contains(text, keyword) ==
    \E p \in 0..(Len(text) - Len(keyword)) :
        SubSeq(text, p + 1, p + Len(keyword)) = keyword

\* re.compile(pattern) raises re.error: patterns here are made of literal
\* characters, '.' and '[' and never close a character set
RegexInvalid(pattern) == \E i \in 1..Len(pattern) : pattern[i] = ChLBracket

\* compiled.search(text) for a pattern of literals and '.'
RegexSearch(pattern, text) ==
    \E p \in 0..(Len(text) - Len(pattern)) :
        \A j \in 1..Len(pattern) :
            IF pattern[j] = ChDot THEN text[p + j] # LF ELSE text[p + j] = pattern[j]

\* QFontMetrics.width(char): U+FFFD and non-ASCII are drawn double width
CharPixels(c) == IF c < 128 THEN 1 ELSE 2

\* QFontMetrics.width(text)
RECURSIVE FontWidth(_)
FontWidth(text) == IF text = <<>> THEN 0 ELSE CharPixels(text[1]) + FontWidth(Tail(text))

\* self._char_width and self._line_height of the widget font
char_width == Max(1, CharPixels(65))
line_height == Max(1, 2)

\* len(str(n)) for n >= 0
RECURSIVE Digits(_)
Digits(n) == IF n < 10 THEN 1 ELSE 1 + Digits(n \div 10)

(***************************************************************************)
(* Wrap/Layout engine                                                      *)
(***************************************************************************)
\* the while loop of _get_wrapped_lines; i, current_start, current_end are 0-based
\* a wrap loop that closes a segment as soon as it is full
RECURSIVE WrapLoopEager(_, _, _, _, _, _, _)
WrapLoopEager(text, available_width, i, current_start, current_end, current_width, wrapped) ==
    IF i >= Len(text)
    THEN IF current_end > current_start
         THEN Append(wrapped, Slice(text, current_start, current_end))
         ELSE wrapped
    ELSE LET cw == CharPixels(text[i + 1])
             flush == current_width + cw >= available_width /\ current_end > current_start
             wrapped1 == IF flush THEN Append(wrapped, Slice(text, current_start, current_end))
                                  ELSE wrapped
             start1 == IF flush THEN current_end ELSE current_start
             width1 == IF flush THEN 0 ELSE current_width
         IN  IF start1 = current_end /\ cw > available_width
             THEN WrapLoopEager(text, available_width, i + 1, i + 1, i + 1, 0,
                                Append(wrapped1, <<text[i + 1]>>))
             ELSE WrapLoopEager(text, available_width, i + 1, start1, i + 1, width1 + cw,
                                wrapped1)

RECURSIVE WrapLoop(_, _, _, _, _, _, _)
WrapLoop(text, available_width, i, current_start, current_end, current_width, wrapped) ==
    IF i >= Len(text)
    THEN IF current_end > current_start
         THEN Append(wrapped, Slice(text, current_start, current_end))
         ELSE wrapped
    ELSE LET cw == CharPixels(text[i + 1])
             flush == current_width + cw > available_width /\ current_end > current_start
             wrapped1 == IF flush THEN Append(wrapped, Slice(text, current_start, current_end))
                                  ELSE wrapped
             start1 == IF flush THEN current_end ELSE current_start
             width1 == IF flush THEN 0 ELSE current_width
         IN  IF start1 = current_end /\ cw > available_width
             THEN WrapLoop(text, available_width, i + 1, i + 1, i + 1, 0,
                           Append(wrapped1, <<text[i + 1]>>))
             ELSE WrapLoop(text, available_width, i + 1, start1, i + 1, width1 + cw, wrapped1)

\* the cold computation of _get_wrapped_lines (no cache)
WrapText(text, available_width) ==
    IF text = <<>> THEN << <<>> >>
    ELSE IF FontWidth(text) <= available_width THEN <<text>>
    ELSE LET wrapped == WrapLoop(text, available_width, 0, 0, 0, 0, <<>>)
         IN  IF wrapped # <<>> THEN wrapped ELSE <<text>>

(***************************************************************************)
(* The widget as a record of its fields; a method is an operator from the  *)
(* widget before the call to the widget after it (name_ret is its result). *)
(***************************************************************************)
self ==
    [ lines |-> lines, line_timestamps |-> line_timestamps, raw_bytes |-> raw_bytes, line_offset |-> line_offset,
      max_lines |-> max_lines, current_line_index |-> current_line_index,
      sel_start_pos |-> sel_start_pos, sel_end_pos |-> sel_end_pos,
      pending_update |-> pending_update, timer_active |-> timer_active,
      timer_starts |-> timer_starts,
      auto_scroll |-> auto_scroll, show_timestamp |-> show_timestamp,
      filter_pattern |-> filter_pattern, filter_enabled |-> filter_enabled,
      filter_regex_str |-> filter_regex_str, filter_use_regex |-> filter_use_regex,
      filter_cache |-> filter_cache, wrapped_lines_cache |-> wrapped_lines_cache,
      cached_available_width |-> cached_available_width,
      highlight_cache |-> highlight_cache,
      cached_total_display_lines |-> cached_total_display_lines,
      total_display_lines_dirty |-> total_display_lines_dirty,
      line_num_area_width |-> line_num_area_width,
      timestamp_width |-> timestamp_width,
      viewport_w |-> viewport_w, viewport_h |-> viewport_h,
      sb_max |-> sb_max, sb_value |-> sb_value,
      is_selecting |-> is_selecting, view_mode |-> view_mode,
      highlight_rules |-> highlight_rules,
      highlight_enabled |-> highlight_enabled,
      clipboard |-> clipboard, now |-> now ]

\* the widget is s after the step
Becomes(s) ==
    /\ lines' = s.lines
    /\ line_timestamps' = s.line_timestamps
    /\ raw_bytes' = s.raw_bytes
    /\ line_offset' = s.line_offset
    /\ max_lines' = s.max_lines
    /\ current_line_index' = s.current_line_index
    /\ sel_start_pos' = s.sel_start_pos
    /\ sel_end_pos' = s.sel_end_pos
    /\ pending_update' = s.pending_update
    /\ timer_active' = s.timer_active
    /\ timer_starts' = s.timer_starts
    /\ auto_scroll' = s.auto_scroll
    /\ show_timestamp' = s.show_timestamp
    /\ filter_pattern' = s.filter_pattern
    /\ filter_enabled' = s.filter_enabled
    /\ filter_regex_str' = s.filter_regex_str
    /\ filter_use_regex' = s.filter_use_regex
    /\ filter_cache' = s.filter_cache
    /\ wrapped_lines_cache' = s.wrapped_lines_cache
    /\ cached_available_width' = s.cached_available_width
    /\ highlight_cache' = s.highlight_cache
    /\ cached_total_display_lines' = s.cached_total_display_lines
    /\ total_display_lines_dirty' = s.total_display_lines_dirty
    /\ line_num_area_width' = s.line_num_area_width
    /\ timestamp_width' = s.timestamp_width
    /\ viewport_w' = s.viewport_w
    /\ viewport_h' = s.viewport_h
    /\ sb_max' = s.sb_max
    /\ sb_value' = s.sb_value
    /\ is_selecting' = s.is_selecting
    /\ view_mode' = s.view_mode
    /\ highlight_rules' = s.highlight_rules
    /\ highlight_enabled' = s.highlight_enabled
    /\ clipboard' = s.clipboard
    /\ now' = s.now

\* self._lines[line_idx], 0-based
LineAt(s, line_idx) == s.lines[line_idx + 1]

_get_available_width(s) == Max(1, s.viewport_w - s.line_num_area_width - 10)

(***************************************************************************)
(* Filter engine                                                           *)
(***************************************************************************)
\* the try block of _line_matches_filter: raised is the except branch
FilterEval(s, line_text) ==
    IF s.filter_use_regex
    THEN IF s.filter_pattern.kind = "regex"
         THEN [raised |-> FALSE, result |-> RegexSearch(s.filter_pattern.src, line_text)]
         ELSE [raised |-> TRUE, result |-> TRUE]
    ELSE IF s.filter_pattern.kind = "str"
         THEN [raised |-> FALSE, result |-> Contains(line_text, s.filter_pattern.src)]
         ELSE [raised |-> TRUE, result |-> TRUE]

_line_matches_filter_ret(s, line_text, line_idx) ==
    IF ~s.filter_enabled \/ s.filter_pattern.kind = "none" THEN TRUE
    ELSE IF (line_idx + s.line_offset) \in DOMAIN s.filter_cache
         THEN s.filter_cache[line_idx + s.line_offset]
    ELSE FilterEval(s, line_text).result

_line_matches_filter(s, line_text, line_idx) ==
    IF ~s.filter_enabled \/ s.filter_pattern.kind = "none" THEN s
    ELSE IF (line_idx + s.line_offset) \in DOMAIN s.filter_cache THEN s
    ELSE IF FilterEval(s, line_text).raised THEN s
    ELSE [s EXCEPT !.filter_cache =
              ((line_idx + s.line_offset) :> FilterEval(s, line_text).result) @@ @]

(***************************************************************************)
(* Wrap cache                                                              *)
(***************************************************************************)
WrapKey(s, line_idx) == <<line_idx + s.line_offset, _get_available_width(s)>>

_get_wrapped_lines_ret(s, text, line_idx) ==
    IF text = <<>> THEN << <<>> >>
    ELSE IF WrapKey(s, line_idx) \in DOMAIN s.wrapped_lines_cache
         THEN s.wrapped_lines_cache[WrapKey(s, line_idx)]
    ELSE WrapText(text, _get_available_width(s))

_get_wrapped_lines(s, text, line_idx) ==
    IF text = <<>> THEN s
    ELSE IF WrapKey(s, line_idx) \in DOMAIN s.wrapped_lines_cache THEN s
    ELSE [s EXCEPT !.wrapped_lines_cache =
              (WrapKey(s, line_idx) :> WrapText(text, _get_available_width(s))) @@ @]

_get_display_line_count_ret(s, line_idx) ==
    IF line_idx < 0 \/ line_idx >= Len(s.lines) THEN 0
    ELSE IF LineAt(s, line_idx) = <<>> THEN 1
    ELSE Len(_get_wrapped_lines_ret(s, LineAt(s, line_idx), line_idx))

_get_display_line_count(s, line_idx) ==
    IF line_idx < 0 \/ line_idx >= Len(s.lines) THEN s
    ELSE IF LineAt(s, line_idx) = <<>> THEN s
    ELSE _get_wrapped_lines(s, LineAt(s, line_idx), line_idx)

(***************************************************************************)
(* Loops over source rows.  Every loop of the widget visits the rows in    *)
(* increasing order, asks the filter for the row and, for a row that       *)
(* passes, its display line count.  The visit of a row reads and writes    *)
(* only the cache entries of that row, so the values a walk sees are those *)
(* of the widget before the walk, and the widget after the walk is the     *)
(* widget with the entries of the visited rows filled in.                  *)
(***************************************************************************)
RowPasses(s, i) == _line_matches_filter_ret(s, LineAt(s, i), i)

\* what one iteration adds to the running display row count
RowCount(s, i) == IF RowPasses(s, i) THEN _get_display_line_count_ret(s, i) ELSE 0

\* the rows of R whose visit stores a filter result
FilterFills(s, R) ==
    IF ~s.filter_enabled \/ s.filter_pattern.kind = "none" THEN {}
    ELSE {i \in R : /\ (i + s.line_offset) \notin DOMAIN s.filter_cache
                    /\ ~FilterEval(s, LineAt(s, i)).raised}

\* the rows of R whose visit stores a wrap result
WrapFills(s, R) ==
    {i \in R : /\ RowPasses(s, i)
               /\ LineAt(s, i) # <<>>
               /\ WrapKey(s, i) \notin DOMAIN s.wrapped_lines_cache}

\* the widget after the rows of R have been visited
VisitRows(s, R) ==
    LET ff == FilterFills(s, R)
        wf == WrapFills(s, R)
        aw == _get_available_width(s)
    IN  [s EXCEPT
           !.filter_cache =
               [k \in (DOMAIN @) \cup {i + s.line_offset : i \in ff} |->
                   IF k \in DOMAIN @ THEN @[k]
                   ELSE FilterEval(s, LineAt(s, k - s.line_offset)).result],
           !.wrapped_lines_cache =
               [k \in (DOMAIN @) \cup {WrapKey(s, i) : i \in wf} |->
                   IF k \in DOMAIN @ THEN @[k]
                   ELSE WrapText(LineAt(s, k[1] - s.line_offset), aw)]]

\* the sum of RowCount over the rows lo .. hi-1
RECURSIVE SumRows(_, _, _)
SumRows(s, lo, hi) ==
    IF hi <= lo THEN 0
    ELSE IF hi = lo + 1 THEN RowCount(s, lo)
    ELSE SumRows(s, lo, (lo + hi) \div 2) + SumRows(s, (lo + hi) \div 2, hi)

\* current_display at the top of iteration i of a walk from row 0, for the
\* rows lo .. hi-1 when it is base at row lo, and for every row
RECURSIVE StartsFrom(_, _, _, _)
StartsFrom(s, lo, hi, base) ==
    IF hi <= lo THEN <<>>
    ELSE IF hi = lo + 1 THEN <<base>>
    ELSE LET mid == (lo + hi) \div 2
         IN  StartsFrom(s, lo, mid, base)
                 \o StartsFrom(s, mid, hi, base + SumRows(s, lo, mid))

DisplayStarts(s) ==
    LET starts == StartsFrom(s, 0, Len(s.lines) + 1, 0)
    IN  [i \in 0..Len(s.lines) |-> starts[i + 1]]

\* the least element of a non-empty set of integers
Least(S) == CHOOSE x \in S : \A y \in S : x <= y

_get_total_display_lines_ret(s) ==
    IF ~s.total_display_lines_dirty THEN s.cached_total_display_lines
    ELSE SumRows(s, 0, Len(s.lines))

_get_total_display_lines(s) ==
    IF ~s.total_display_lines_dirty THEN s
    ELSE [VisitRows(s, 0..(Len(s.lines) - 1)) EXCEPT
              !.cached_total_display_lines = SumRows(s, 0, Len(s.lines)),
              !.total_display_lines_dirty = FALSE]

_invalidate_total_display_lines_cache(s) == [s EXCEPT !.total_display_lines_dirty = TRUE]

_clear_wrapped_cache(s) ==
    _invalidate_total_display_lines_cache([s EXCEPT !.wrapped_lines_cache = <<>>])

(***************************************************************************)
(* Scroll bar and metrics                                                  *)
(***************************************************************************)
\* QScrollBar.setRange(0, v_max): the value is kept inside the range
SetRange(s, v_max) == [s EXCEPT !.sb_max = v_max, !.sb_value = Min(@, v_max)]

\* QScrollBar.setValue(v)
SetValue(s, v) == [s EXCEPT !.sb_value = Max(0, Min(v, s.sb_max))]

\* self._bytes_per_line
bytes_per_line == 32

_update_scrollbars(s) ==
    LET rows_per_page == s.viewport_h \div Max(1, line_height)
        total_rows == _get_total_display_lines_ret(s)
        hex_rows == CeilDiv(Len(s.raw_bytes), bytes_per_line)
    IN  IF s.view_mode = "HEX_STREAM"
        THEN SetRange(s, Max(0, hex_rows - rows_per_page))
        ELSE SetRange(_get_total_display_lines(s), Max(0, total_rows - rows_per_page))

scroll_to_bottom(s) == SetValue(s, s.sb_max)

_update_metrics(s) ==
    LET old_available_width == s.cached_available_width
        ts_width == IF s.show_timestamp THEN 13 * char_width ELSE 0
        digits == IF s.lines # <<>> THEN Digits(Len(s.lines)) ELSE 4
        s1 == [s EXCEPT !.timestamp_width = ts_width,
                        !.line_num_area_width = ts_width + 20 + digits * char_width]
        new_available_width == _get_available_width(s1)
        s2 == IF old_available_width # new_available_width
              THEN [s1 EXCEPT !.wrapped_lines_cache = <<>>] ELSE s1
    IN  _update_scrollbars([s2 EXCEPT !.cached_available_width = new_available_width])

_update_line_num_width_dynamic(s) ==
    IF s.lines = <<>> THEN s
    ELSE IF Digits(Len(s.lines)) * char_width
              > s.line_num_area_width - s.timestamp_width - 20
         THEN _update_metrics(s)
    ELSE s

(***************************************************************************)
(* Line store: trim                                                        *)
(***************************************************************************)
\* self._trim_threshold = 0.1, in percent
trim_threshold_percent == 10

\* the least buffer of a trim: max(int(max_lines * 0.1), 100)
MinTrimBuffer == 100

\* a threshold without hysteresis
OverLimit(s) == Len(s.lines) > s.max_lines

\* a threshold of twice the hysteresis
OverThresholdLoose(s) == 100 * Len(s.lines) > s.max_lines * (100 + 2 * trim_threshold_percent)

\* len(self._lines) > self._max_lines * (1 + self._trim_threshold)
OverThreshold(s) == 100 * Len(s.lines) > s.max_lines * (100 + trim_threshold_percent)

\* a trim that deletes the excess only
DeleteCountExcess(s) == Len(s.lines) - s.max_lines

\* delete_count of _trim_lines_if_needed
DeleteCount(s) ==
    LET excess == Len(s.lines) - s.max_lines
        buffer_size == Max((s.max_lines * trim_threshold_percent) \div 100, MinTrimBuffer)
    IN  excess + buffer_size

\* an end point that stays where it was
KeepPos(pos, delete_count) == pos

\* a selection end point after delete_count rows have gone
ShiftPos(pos, delete_count) == <<pos[1] - delete_count, pos[2]>>

\* an eviction from the back of the list
DropBack(seq, delete_count) == SubSeq(seq, 1, Len(seq) - delete_count)

\* self._lines[delete_count:]
DropFront(seq, delete_count) == SubSeq(seq, delete_count + 1, Len(seq))

\* a purge that removes nothing
PurgeNothing(cache, delete_start, delete_end) == cache

\* the wrap cache without the entries of the deleted rows (keys are (row, width))
PurgeWrapped(cache, delete_start, delete_end) ==
    LET keep == {k \in DOMAIN cache : ~(delete_start <= k[1] /\ k[1] < delete_end)}
    IN  [k \in keep |-> cache[k]]

\* a cache keyed by row without the entries of the deleted rows
PurgeRows(cache, delete_start, delete_end) ==
    LET keep == {k \in DOMAIN cache : ~(delete_start <= k /\ k < delete_end)}
    IN  [k \in keep |-> cache[k]]

_trim_lines_if_needed(s, was_at_bottom) ==
    IF Len(s.lines) <= s.max_lines THEN s
    ELSE
    LET delete_count == DeleteCount(s)
        old_scroll_value == s.sb_value
        old_max == s.sb_max
        cur == IF s.current_line_index >= 0 /\ s.current_line_index < delete_count THEN -1
               ELSE IF s.current_line_index >= delete_count
                    THEN s.current_line_index - delete_count
               ELSE s.current_line_index
        \* the selection after the block on _sel_start_pos
        start1 == IF s.sel_start_pos = None THEN None
                  ELSE IF s.sel_start_pos[1] < delete_count THEN None
                  ELSE ShiftPos(s.sel_start_pos, delete_count)
        end1 == IF s.sel_start_pos # None /\ s.sel_start_pos[1] < delete_count
                THEN None ELSE s.sel_end_pos
        \* and after the block on _sel_end_pos
        start2 == IF end1 # None /\ end1[1] < delete_count THEN None ELSE start1
        end2 == IF end1 = None THEN None
                ELSE IF end1[1] < delete_count THEN None
                ELSE ShiftPos(end1, delete_count)
        delete_start == s.line_offset
        delete_end == s.line_offset + delete_count
        s1 == [s EXCEPT
                 !.current_line_index = cur,
                 !.sel_start_pos = start2,
                 !.sel_end_pos = end2,
                 !.lines = DropFront(@, delete_count),
                 !.line_timestamps = DropFront(@, delete_count),
                 !.line_offset = @ + delete_count,
                 !.wrapped_lines_cache = PurgeWrapped(@, delete_start, delete_end),
                 !.filter_cache = PurgeRows(@, delete_start, delete_end),
                 !.highlight_cache = PurgeRows(@, delete_start, delete_end),
                 !.total_display_lines_dirty = TRUE,
                 !.pending_update = FALSE,
                 !.timer_active = FALSE,
                 !.timer_starts = 0]
        s2 == _update_scrollbars(s1)
        new_max == s2.sb_max
    IN  IF was_at_bottom \/ s.auto_scroll THEN scroll_to_bottom(s2)
        ELSE IF new_max > 0 /\ old_max > 0
             \* int(old_scroll_value / old_max * new_max)
             THEN SetValue(s2, Max(0, (old_scroll_value * new_max) \div old_max))
        ELSE s2

(***************************************************************************)
(* Line store: append                                                      *)
(***************************************************************************)
\* is_new_line_start of append_raw_bytes
IsNewLineStart(s) == ~(Len(s.raw_bytes) > 0 /\ s.raw_bytes[Len(s.raw_bytes)] # LF)

\* self._lines after the block that updates it (before any trim)
AppendedLines(s, data) ==
    LET new_text == Utf8Decode(data)
        new_lines_list == splitlines(new_text)
        last == Len(s.lines)
        ends_line == new_text # <<>> /\ new_text[Len(new_text)] \in {LF, CR}
    IN  IF ~IsNewLineStart(s) /\ s.lines # <<>>
        THEN IF new_lines_list # <<>>
             THEN [s.lines EXCEPT ![last] = @ \o new_lines_list[1]] \o Tail(new_lines_list)
             ELSE IF new_text # <<>> /\ ~ends_line
                  THEN [s.lines EXCEPT ![last] = @ \o new_text]
             ELSE s.lines
        ELSE IF new_lines_list # <<>> THEN s.lines \o new_lines_list
             ELSE IF new_text # <<>> /\ ~ends_line THEN Append(s.lines, new_text)
             ELSE s.lines

\* now = time.time()
Now(s) == s.now

\* [now] * n
Stamps(s, n) == [i \in 1..n |-> Now(s)]

\* timestamps that give every line the time of the last append
StampsAllNow(s, data) == Stamps(s, Len(AppendedLines(s, data)))

\* self._line_timestamps after the same block and the padding that follows it
AppendedTimestamps(s, data) ==
    LET new_text == Utf8Decode(data)
        new_lines_list == splitlines(new_text)
        ends_line == new_text # <<>> /\ new_text[Len(new_text)] \in {LF, CR}
        stamped == IF ~IsNewLineStart(s) /\ s.lines # <<>>
                   THEN IF Len(new_lines_list) > 1
                        THEN s.line_timestamps \o Stamps(s, Len(new_lines_list) - 1)
                        ELSE s.line_timestamps
                   ELSE IF new_lines_list # <<>>
                        THEN s.line_timestamps \o Stamps(s, Len(new_lines_list))
                   ELSE IF new_text # <<>> /\ ~ends_line
                        THEN Append(s.line_timestamps, Now(s))
                   ELSE s.line_timestamps
    IN  IF Len(stamped) < Len(AppendedLines(s, data))
        THEN stamped \o Stamps(s, Len(AppendedLines(s, data)) - Len(stamped))
        ELSE stamped

\* self._raw_bytes after "self._raw_bytes += data"
\* a raw log that keeps only as many bytes as there are lines in the store
AppendedRawCapped(s, data) ==
    IF Len(s.raw_bytes) > Len(s.lines) + 1 THEN data ELSE s.raw_bytes \o data

AppendedRaw(s, data) == s.raw_bytes \o data

\* a schedule that starts the timer anew at every append
ScheduleAnew(s) ==
    [s EXCEPT !.pending_update = TRUE, !.timer_active = TRUE,
              !.timer_starts = @ + 1]

_schedule_update(s) ==
    IF ~s.pending_update
    THEN [s EXCEPT !.pending_update = TRUE, !.timer_active = TRUE,
                   !.timer_starts = @ + 1]
    ELSE s

\* append_raw_bytes for non-empty data
append_raw_bytes(s, data) ==
    LET was_at_bottom == s.sb_value >= s.sb_max - 1
        s1 == [s EXCEPT !.raw_bytes = AppendedRaw(s, data),
                        !.lines = AppendedLines(s, data),
                        !.line_timestamps = AppendedTimestamps(s, data)]
        s2 == IF OverThreshold(s1) THEN _trim_lines_if_needed(s1, was_at_bottom) ELSE s1
        lines_trimmed == OverThreshold(s1) /\ Len(s2.lines) < Len(s1.lines)
        s3 == _invalidate_total_display_lines_cache(s2)
    IN  IF lines_trimmed THEN _update_line_num_width_dynamic(s3)
        ELSE _schedule_update(s3)

\* a timer slot that always follows the new end of the log
PendingUpdateToBottom(s) ==
    IF s.pending_update
    THEN [scroll_to_bottom(_update_line_num_width_dynamic(_update_scrollbars(s)))
             EXCEPT !.pending_update = FALSE]
    ELSE s

\* a timer slot that drops the pending refresh
DropPendingUpdate(s) == [s EXCEPT !.pending_update = FALSE]

\* the timer slot
_do_pending_update(s) ==
    IF s.pending_update
    THEN LET s1 == _update_line_num_width_dynamic(_update_scrollbars(s))
             was_at_bottom == s1.sb_value >= s1.sb_max - 1
             s2 == IF s1.auto_scroll \/ was_at_bottom THEN scroll_to_bottom(s1) ELSE s1
         IN  [s2 EXCEPT !.pending_update = FALSE]
    ELSE s

set_max_lines(s, n) ==
    LET s1 == [s EXCEPT !.max_lines = IF n < 1 THEN 1 ELSE n]
        old_max == s1.sb_max
        was_at_bottom == IF old_max > 0 THEN s1.sb_value >= old_max - 1 ELSE TRUE
    IN  _trim_lines_if_needed(s1, was_at_bottom)

(***************************************************************************)
(* Display row index                                                       *)
(***************************************************************************)
\* the passing rows i >= from whose segment range ends after display_row:
\* the rows at which a walk tests current_display + display_count > display_row
\* and finds it true
RowsEndingAfter(s, from, display_row) ==
    LET start == DisplayStarts(s)
    IN  {i \in from..(Len(s.lines) - 1) :
            RowPasses(s, i) /\ start[i] + RowCount(s, i) > display_row}

\* ret is (start_src_row, end_src_row, start_display_offset), s the widget
\* with the caches the walk has filled
_find_visible_source_rows(s, first_display_row, last_display_row) ==
    IF s.lines = <<>> THEN [ret |-> <<0, 0, 0>>, s |-> s]
    ELSE
    LET n == Len(s.lines)
        starts == RowsEndingAfter(s, 0, first_display_row)
        start_src_row == Least(starts)
        start_display_offset == DisplayStarts(s)[start_src_row]
        ends == RowsEndingAfter(s, start_src_row, last_display_row)
        ret == IF starts = {} THEN <<0, n, 0>>
               ELSE IF start_display_offset > last_display_row
                    THEN <<start_src_row, start_src_row + 1, start_display_offset>>
               ELSE IF ends # {}
                    THEN <<start_src_row, Least(ends) + 1, start_display_offset>>
               ELSE <<start_src_row, n, start_display_offset>>
        \* the walk returns at row end_src_row - 1 or runs to the last row
        walked == IF starts = {} THEN n
                  ELSE IF start_display_offset > last_display_row THEN start_src_row + 1
                  ELSE ret[2]
    IN  [ret |-> ret, s |-> VisitRows(s, 0..(walked - 1))]

\* the sum of the lengths of the first n segments
RECURSIVE SumLens(_, _)
SumLens(wrapped_lines, n) ==
    IF n <= 0 THEN 0 ELSE SumLens(wrapped_lines, n - 1) + Len(wrapped_lines[n])

\* ret is (src_row, col)
_display_row_to_source_row_col(s, display_row) ==
    LET n == Len(s.lines)
        hits == RowsEndingAfter(s, 0, display_row)
        src_row == Least(hits)
        wrapped_lines == _get_wrapped_lines_ret(s, LineAt(s, src_row), src_row)
        local_display == display_row - DisplayStarts(s)[src_row]
        matching == {i \in 0..(n - 1) : RowPasses(s, i)}
        last_matching == CHOOSE i \in matching : \A j \in matching : j <= i
    IN  IF hits # {}
        THEN [ret |-> IF local_display < Len(wrapped_lines)
                      THEN <<src_row, SumLens(wrapped_lines, local_display)>>
                      ELSE <<src_row, Len(LineAt(s, src_row))>>,
              s |-> VisitRows(s, 0..src_row)]
        ELSE [ret |-> IF n = 0 THEN <<0, 0>>
                      ELSE IF matching # {}
                           THEN <<last_matching, Len(LineAt(s, last_matching))>>
                      ELSE <<n - 1, Len(LineAt(s, n - 1))>>,
              s |-> VisitRows(s, 0..(n - 1))]

\* the index of the first segment that contains col, or the last segment
\* a segment search that takes a column at a segment's end to be inside it
RECURSIVE SegmentOfInclusive(_, _, _, _)
SegmentOfInclusive(wrapped_lines, col, i, char_count) ==
    IF i >= Len(wrapped_lines) THEN Len(wrapped_lines) - 1
    ELSE IF col <= char_count + Len(wrapped_lines[i + 1]) THEN i
    ELSE SegmentOfInclusive(wrapped_lines, col, i + 1, char_count + Len(wrapped_lines[i + 1]))

RECURSIVE SegmentOf(_, _, _, _)
SegmentOf(wrapped_lines, col, i, char_count) ==
    IF i >= Len(wrapped_lines) THEN Len(wrapped_lines) - 1
    ELSE IF col < char_count + Len(wrapped_lines[i + 1]) THEN i
    ELSE SegmentOf(wrapped_lines, col, i + 1, char_count + Len(wrapped_lines[i + 1]))

\* ret is the display row
_source_row_col_to_display_row(s, src_row, col) ==
    IF src_row < 0 \/ src_row >= Len(s.lines) THEN [ret |-> 0, s |-> s]
    ELSE
    LET display_row == SumRows(s, 0, src_row)
        wrapped_lines == _get_wrapped_lines_ret(s, LineAt(s, src_row), src_row)
    IN  [ret |-> IF ~RowPasses(s, src_row) THEN display_row
                 ELSE display_row + SegmentOf(wrapped_lines, col, 0, 0),
         s |-> VisitRows(s, 0..src_row)]

(***************************************************************************)
(* Pointer, selection and goto-line                                        *)
(***************************************************************************)
\* the character loop of _map_point_to_pos: the first index whose character's
\* middle lies right of rel_x, or the length of the segment
RECURSIVE ColOffset(_, _, _, _)
ColOffset(wrapped_text, rel_x, i, current_width) ==
    IF i >= Len(wrapped_text) THEN Len(wrapped_text)
    ELSE LET cw == CharPixels(wrapped_text[i + 1])
         IN  IF 2 * current_width + cw > 2 * rel_x THEN i
             ELSE ColOffset(wrapped_text, rel_x, i + 1, current_width + cw)

\* the column of the pointer in a row that passes the filter
ColAt(wrapped_lines, line_text, local_display, rel_x) ==
    IF 0 <= local_display /\ local_display < Len(wrapped_lines)
    THEN Max(0, Min(Len(line_text),
             SumLens(wrapped_lines, local_display)
                 + ColOffset(wrapped_lines[local_display + 1], rel_x, 0, 0)))
    ELSE IF local_display >= Len(wrapped_lines) THEN Len(line_text)
    ELSE 0

\* _map_point_to_pos once _display_row_to_source_row_col has returned r
PosAt(r, display_row, rel_x) ==
    IF 0 <= r.ret[1] /\ r.ret[1] < Len(r.s.lines)
    THEN IF ~RowPasses(r.s, r.ret[1])
         THEN [ret |-> <<r.ret[1], 0>>, s |-> VisitRows(r.s, {r.ret[1]})]
         ELSE [ret |-> <<r.ret[1],
                         ColAt(_get_wrapped_lines_ret(r.s, LineAt(r.s, r.ret[1]), r.ret[1]),
                               LineAt(r.s, r.ret[1]),
                               display_row - SumRows(r.s, 0, r.ret[1]),
                               rel_x)>>,
               s |-> VisitRows(r.s, 0..r.ret[1])]
    ELSE [ret |-> <<r.ret[1], 0>>, s |-> r.s]

\* ret is (src_row, col); the horizontal scroll bar stays at 0
_map_point_to_pos(s, x, y) ==
    PosAt(_display_row_to_source_row_col(s, s.sb_value + y \div line_height),
          s.sb_value + y \div line_height,
          x - s.line_num_area_width - 5)

\* the selection a press starts at pos
PressAt(pos) ==
    [pos.s EXCEPT !.sel_start_pos = pos.ret, !.sel_end_pos = pos.ret,
                  !.is_selecting = TRUE]

\* a press of the left button at (x, y)
mousePressEvent(s, x, y) ==
    IF s.view_mode = "TEXT_ONLY" THEN PressAt(_map_point_to_pos(s, x, y)) ELSE s

\* the selection a drag extends to pos
MoveTo(pos) == [pos.s EXCEPT !.sel_end_pos = pos.ret]

mouseMoveEvent(s, x, y) ==
    IF s.is_selecting /\ s.view_mode = "TEXT_ONLY"
    THEN MoveTo(_map_point_to_pos(s, x, y))
    ELSE s

\* a release of the left button
mouseReleaseEvent(s) == [s EXCEPT !.is_selecting = FALSE]

\* the selection taken as it was dragged
SelectionAsDragged(s) ==
    IF s.sel_start_pos = None \/ s.sel_end_pos = None THEN <<None, None>>
    ELSE <<s.sel_start_pos, s.sel_end_pos>>

\* ret is (start, end), or (None, None) when an endpoint is missing
_get_normalized_selection(s) ==
    IF s.sel_start_pos = None \/ s.sel_end_pos = None THEN <<None, None>>
    ELSE LET r1 == s.sel_start_pos[1]
             c1 == s.sel_start_pos[2]
             r2 == s.sel_end_pos[1]
             c2 == s.sel_end_pos[2]
         IN  IF r1 < r2 THEN <<s.sel_start_pos, s.sel_end_pos>>
             ELSE IF r1 > r2 THEN <<s.sel_end_pos, s.sel_start_pos>>
             ELSE << <<r1, Min(c1, c2)>>, <<r1, Max(c1, c2)>> >>

\* the piece of row r the loop of copy_selection appends
CopiedPiece(s, start, end, r) ==
    Slice(LineAt(s, r),
          IF r = start[1] THEN start[2] ELSE 0,
          IF r = end[1] THEN end[2] ELSE Len(LineAt(s, r)))

\* "\n".join(copied_text) for the rows r .. last
RECURSIVE JoinRows(_, _, _, _, _)
JoinRows(s, start, end, r, last) ==
    IF r > last THEN <<>>
    ELSE IF r = last THEN CopiedPiece(s, start, end, r)
    ELSE CopiedPiece(s, start, end, r) \o <<LF>> \o JoinRows(s, start, end, r + 1, last)

\* the text set on the clipboard for the selection start .. end: the loop
\* stops at the first row that is not in the store
CopiedText(s, start, end) ==
    JoinRows(s, start, end, start[1], Min(end[1], Len(s.lines) - 1))

\* copy_selection once _get_normalized_selection has returned sel
CopyOf(s, sel) ==
    IF sel[1] = None \/ sel[1] = sel[2] THEN s
    ELSE [s EXCEPT !.clipboard = CopiedText(s, sel[1], sel[2])]

copy_selection(s) == CopyOf(s, _get_normalized_selection(s))

\* a range test that lets the line after the last one through
GotoLineLoose(s, line_no) == 0 <= line_no - 1 /\ line_no - 1 <= Len(s.lines)

goto_line_ret(s, line_no) == 0 <= line_no - 1 /\ line_no - 1 < Len(s.lines)

\* the jump once _source_row_col_to_display_row has returned display_row
JumpTo(display_row, line_idx) ==
    SetValue([display_row.s EXCEPT !.current_line_index = line_idx], display_row.ret)

goto_line(s, line_no) ==
    IF goto_line_ret(s, line_no)
    THEN JumpTo(_source_row_col_to_display_row(s, line_no - 1, 0), line_no - 1)
    ELSE s

(***************************************************************************)
(* Highlighting                                                            *)
(***************************************************************************)
\* QColor(name) when a colour name is given, None ("none") when it is not
\* given or is not a valid colour
ColorNames == {"#FFFF00", "#FF0000", "#00FF00", "#0000FF"}
NoColor == "none"
QColor(name) == IF name \in ColorNames THEN name ELSE NoColor

\* the positions text.find(keyword, start) reports when the search resumes at
\* pos + 1 after every occurrence
LiteralStarts(keyword, text) ==
    {p \in 0..(Len(text) - Len(keyword)) :
        SubSeq(text, p + 1, p + Len(keyword)) = keyword}

\* the compiled pattern (literals and '.') matches text at position p
RegexMatchesAt(pattern, text, p) ==
    /\ p + Len(pattern) <= Len(text)
    /\ \A j \in 1..Len(pattern) :
          IF pattern[j] = ChDot THEN text[p + j] # LF ELSE text[p + j] = pattern[j]

\* the starts of pattern.finditer(text) from position p on: the leftmost
\* match, then the search resumes at its end
RECURSIVE FindIterStarts(_, _, _)
FindIterStarts(pattern, text, p) ==
    IF p + Len(pattern) > Len(text) THEN {}
    ELSE IF RegexMatchesAt(pattern, text, p)
         THEN {p} \cup FindIterStarts(pattern, text, p + Len(pattern))
    ELSE FindIterStarts(pattern, text, p + 1)

\* a rule whose pattern re.compile rejects: the except clause skips the rule
RuleRaises(rule) == rule.use_regex /\ RegexInvalid(rule.keyword)

\* the starts of the matches one rule appends
RuleStarts(rule, text) ==
    IF rule.keyword = <<>> \/ RuleRaises(rule) THEN {}
    ELSE IF rule.use_regex THEN FindIterStarts(rule.keyword, text, 0)
    ELSE LiteralStarts(rule.keyword, text)

\* the tuples (start, end, bg_color, text_color) one rule appends, in the
\* order it appends them
RuleMatches(rule, text) ==
    LET starts == RuleStarts(rule, text)
    IN  [k \in 1..Cardinality(starts) |->
            LET p == CHOOSE q \in starts : Cardinality({r \in starts : r < q}) = k - 1
            IN  <<p, p + Len(rule.keyword), QColor(rule.bg_color), QColor(rule.text_color)>>]

\* matches after the loop has run over the rules i .. len(rules)
RECURSIVE MatchesFrom(_, _, _)
MatchesFrom(rules, text, i) ==
    IF i > Len(rules) THEN <<>>
    ELSE RuleMatches(rules[i], text) \o MatchesFrom(rules, text, i + 1)

\* matches.sort(key=lambda x: x[0]): a stable sort on the start
SortByStart(matches) ==
    LET n == Len(matches)
        rank(i) == Cardinality({j \in 1..n :
                       \/ matches[j][1] < matches[i][1]
                       \/ matches[j][1] = matches[i][1] /\ j < i}) + 1
    IN  [k \in 1..n |-> matches[CHOOSE i \in 1..n : rank(i) = k]]

\* a search that gives up on the whole list when one rule does not compile
HighlightMatchesStrict(rules, text) ==
    IF \E i \in 1..Len(rules) : RuleRaises(rules[i]) THEN <<>>
    ELSE SortByStart(MatchesFrom(rules, text, 1))

\* the list _find_highlight_matches computes on a cache miss
HighlightMatches(rules, text) == SortByStart(MatchesFrom(rules, text, 1))

_find_highlight_matches_ret(s, text, line_idx) ==
    IF text = <<>> \/ s.highlight_rules = <<>> THEN <<>>
    ELSE IF line_idx \in DOMAIN s.highlight_cache THEN s.highlight_cache[line_idx]
    ELSE HighlightMatches(s.highlight_rules, text)

\* the rows of R whose search stores a result
HighlightFills(s, R) ==
    IF s.highlight_rules = <<>> THEN {}
    ELSE {i \in R : /\ LineAt(s, i) # <<>>
                    /\ (i + s.line_offset) \notin DOMAIN s.highlight_cache}

\* the widget after _find_highlight_matches has run on the rows of R, each
\* with line_idx = row + line_offset
_find_highlight_matches(s, R) ==
    LET hf == HighlightFills(s, R)
    IN  [s EXCEPT !.highlight_cache =
            [k \in (DOMAIN @) \cup {i + s.line_offset : i \in hf} |->
                IF k \in DOMAIN @ THEN @[k]
                ELSE HighlightMatches(s.highlight_rules, LineAt(s, k - s.line_offset))]]

set_highlight_rules(s, rules) ==
    [s EXCEPT !.highlight_rules = rules, !.highlight_cache = <<>>]

set_highlight_enabled(s, enabled) ==
    [s EXCEPT !.highlight_enabled = enabled, !.highlight_cache = <<>>]

clear_highlight_rules(s) ==
    [s EXCEPT !.highlight_rules = <<>>, !.highlight_cache = <<>>]

(***************************************************************************)
(* Painting (text mode): only the caches it fills are state                *)
(***************************************************************************)
\* the source rows of which the paint loop draws at least one display row,
\* v being what _find_visible_source_rows has returned
DrawnRows(v, first_display_row, last_display_row) ==
    {src_row \in v.ret[1]..(v.ret[2] - 1) :
        /\ src_row < Len(v.s.lines)
        /\ RowPasses(v.s, src_row)
        /\ \E wrap_idx \in 0..(_get_display_line_count_ret(v.s, src_row) - 1) :
              /\ v.ret[3] + SumRows(v.s, v.ret[1], src_row) + wrap_idx >= first_display_row
              /\ v.ret[3] + SumRows(v.s, v.ret[1], src_row) + wrap_idx < last_display_row}

\* the paint loop: the rows it lays out lie inside the walk of
\* _find_visible_source_rows, which has filled their cache entries; the
\* drawn rows with text are searched for highlights
PaintRows(v, first_display_row, last_display_row) ==
    IF v.s.highlight_enabled /\ v.s.highlight_rules # <<>>
    THEN _find_highlight_matches(v.s, DrawnRows(v, first_display_row, last_display_row))
    ELSE v.s

_paint_text_mode(s) ==
    PaintRows(_find_visible_source_rows(s, s.sb_value,
                  s.sb_value + CeilDiv(s.viewport_h, line_height) + 1),
              s.sb_value,
              s.sb_value + CeilDiv(s.viewport_h, line_height) + 1)

\* _get_chars_per_line(): the characters of the widget font that fit the text area
_get_chars_per_line(s) ==
    LET available_width == s.viewport_w - s.line_num_area_width - 10
    IN  IF available_width <= 0 THEN 1
        ELSE Max(1, available_width \div char_width)

\* the offset in its line the paint loop gives to display row wrap_idx
SegmentOffset(s, wrapped_lines, wrap_idx) == wrap_idx * _get_chars_per_line(s)

\* the characters of display row wrap_idx of source row src_row behind which
\* the paint loop fills a highlight rectangle, as positions in the row from 0
HighlightedChars(s, src_row, wrap_idx) ==
    LET line_text == LineAt(s, src_row)
        wrapped_lines == _get_wrapped_lines_ret(s, line_text, src_row)
        wrapped_text == wrapped_lines[wrap_idx + 1]
        start_char_offset == SegmentOffset(s, wrapped_lines, wrap_idx)
        end_char_offset == Min(start_char_offset + Len(wrapped_text), Len(line_text))
        matches == IF s.highlight_enabled /\ s.highlight_rules # <<>> /\ line_text # <<>>
                   THEN _find_highlight_matches_ret(s, line_text, src_row + s.line_offset)
                   ELSE <<>>
    IN  {k \in 0..(Len(wrapped_text) - 1) :
            \E m \in 1..Len(matches) :
                /\ ~(matches[m][2] <= start_char_offset \/ matches[m][1] >= end_char_offset)
                /\ Max(0, matches[m][1] - start_char_offset) <= k
                /\ k < Min(Len(wrapped_text), matches[m][2] - start_char_offset)}

(***************************************************************************)
(* Hex view                                                                *)
(***************************************************************************)
\* one upper-case hexadecimal digit as a character
HexDigit(d) == IF d < 10 THEN 48 + d ELSE 55 + d

\* f"{start_byte:08X}" for offsets below 16^8
Hex8(n) == [k \in 1..8 |-> HexDigit((n \div (16 ^ (8 - k))) % 16)]

\* f"{b:02X}"
Hex2(b) == <<HexDigit(b \div 16), HexDigit(b % 16)>>

\* " ".join(hex_parts)
RECURSIVE HexText(_, _)
HexText(chunk, n) ==
    IF n = 0 THEN <<>>
    ELSE IF n = 1 THEN Hex2(chunk[1])
    ELSE HexText(chunk, n - 1) \o <<32>> \o Hex2(chunk[n])

\* a byte shown as the character 127
AsciiCharLoose(b) == IF 32 <= b /\ b <= 127 THEN b ELSE ChDot

\* chr(b) if 32 <= b <= 126 else "."
AsciiChar(b) == IF 32 <= b /\ b <= 126 THEN b ELSE ChDot

\* what _paint_hex_stream draws for row i: the offset, the bytes of the row,
\* their hex text and their ascii text
HexRow(s, i) ==
    LET total_bytes == Len(s.raw_bytes)
        start_byte == i * bytes_per_line
        end_byte == Min(start_byte + bytes_per_line, total_bytes)
        chunk == SubSeq(s.raw_bytes, start_byte + 1, end_byte)
    IN  [offset |-> Hex8(start_byte),
         chunk |-> chunk,
         hex |-> HexText(chunk, Len(chunk)),
         ascii |-> [k \in 1..Len(chunk) |-> AsciiChar(chunk[k])]]

\* max_rows of _paint_hex_stream
HexRowCount(s) == CeilDiv(Len(s.raw_bytes), bytes_per_line)

\* the rows _paint_hex_stream draws, by row index
_paint_hex_stream_ret(s) ==
    LET first_row_idx == s.sb_value
        rows_visible == CeilDiv(s.viewport_h, line_height) + 1
        last_row_idx == Min(first_row_idx + rows_visible, HexRowCount(s))
    IN  [i \in first_row_idx..(last_row_idx - 1) |-> HexRow(s, i)]

\* painting the hex view changes no state
paintEvent(s) == IF s.view_mode = "HEX_STREAM" THEN s ELSE _paint_text_mode(s)

set_view_mode(s, mode) == _update_scrollbars([s EXCEPT !.view_mode = mode])

(***************************************************************************)
(* Setters                                                                 *)
(***************************************************************************)
\* the value given to self._filter_pattern for pattern_str under a mode
\* a compilation that installs the pattern without validating it
CompileFilterUnchecked(pattern_str, use_regex) ==
    IF pattern_str # <<>>
    THEN [kind |-> IF use_regex THEN "regex" ELSE "str", src |-> pattern_str]
    ELSE NoPattern

CompileFilter(pattern_str, use_regex) ==
    IF pattern_str # <<>>
    THEN IF use_regex
         THEN IF RegexInvalid(pattern_str) THEN NoPattern
              ELSE [kind |-> "regex", src |-> pattern_str]
         ELSE [kind |-> "str", src |-> pattern_str]
    ELSE NoPattern

\* the common tail of the three filter setters
FilterChanged(s) ==
    _update_scrollbars(_invalidate_total_display_lines_cache(
        _clear_wrapped_cache([s EXCEPT !.filter_cache = <<>>])))

set_filter_pattern(s, pattern_str) ==
    FilterChanged([s EXCEPT !.filter_regex_str = pattern_str,
                            !.filter_pattern = CompileFilter(pattern_str, s.filter_use_regex)])

\* a mode switch that keeps the pattern compiled under the old mode
SetUseRegexFlagOnly(s, use_regex) ==
    IF s.filter_use_regex = use_regex THEN s
    ELSE FilterChanged([s EXCEPT !.filter_use_regex = use_regex])

set_filter_use_regex(s, use_regex) ==
    IF s.filter_use_regex = use_regex THEN s
    ELSE FilterChanged([s EXCEPT !.filter_use_regex = use_regex,
                                 !.filter_pattern = CompileFilter(s.filter_regex_str, use_regex)])

\* what the two setters return: neither has a return value
set_filter_pattern_ret(s, pattern_str) == None
set_filter_use_regex_ret(s, use_regex) == None

\* the one accessor of the filter settings
is_filter_use_regex(s) == s.filter_use_regex

set_filter_enabled(s, enabled) == FilterChanged([s EXCEPT !.filter_enabled = enabled])

set_auto_scroll(s, enabled) ==
    IF enabled THEN scroll_to_bottom([s EXCEPT !.auto_scroll = enabled])
    ELSE [s EXCEPT !.auto_scroll = enabled]

set_show_timestamp(s, show) == _update_metrics([s EXCEPT !.show_timestamp = show])

\* resizeEvent in text mode, the viewport having the new size
resizeEvent(s, w, h) ==
    LET resized == [s EXCEPT !.viewport_w = w, !.viewport_h = h]
    IN  IF s.view_mode = "TEXT_ONLY" THEN _update_scrollbars(resized) ELSE resized

\* a clear that leaves the refresh an earlier append has scheduled
ClearStoreOnly(s) ==
    LET s1 == _clear_wrapped_cache(
                 [s EXCEPT !.lines = <<>>, !.line_timestamps = <<>>,
                           !.raw_bytes = <<>>, !.line_offset = 0,
                           !.sel_start_pos = None, !.sel_end_pos = None])
        s2 == [s1 EXCEPT !.filter_cache = <<>>, !.highlight_cache = <<>>,
                         !.cached_total_display_lines = 0,
                         !.total_display_lines_dirty = FALSE]
    IN  _update_scrollbars(_update_metrics(s2))

clear(s) ==
    LET s1 == _clear_wrapped_cache(
                 [s EXCEPT !.lines = <<>>, !.line_timestamps = <<>>,
                           !.raw_bytes = <<>>, !.line_offset = 0,
                           !.sel_start_pos = None, !.sel_end_pos = None])
        s2 == [s1 EXCEPT !.filter_cache = <<>>, !.highlight_cache = <<>>,
                         !.cached_total_display_lines = 0,
                         !.total_display_lines_dirty = FALSE,
                         !.pending_update = FALSE, !.timer_active = FALSE,
                         !.timer_starts = 0]
    IN  _update_scrollbars(_update_metrics(s2))

\* get_cached_data()
set_content(s, text) ==
    LET s1 == [s EXCEPT !.lines = splitlines(text),
                        !.line_timestamps = Stamps(s, Len(splitlines(text))),
                        !.raw_bytes = Utf8Encode(text),
                        !.line_offset = 0]
    IN  _update_scrollbars(_update_metrics(_clear_wrapped_cache(s1)))

get_cached_data(s) == Utf8Decode(s.raw_bytes)

(***************************************************************************)
(* Inputs                                                                  *)
(***************************************************************************)
\* bytes on the wire: 'a', LF and 0xFF (never valid in UTF-8), and CR
TextBytes == {ChA, LF, 255}
Bytes == TextBytes \cup {CR}

RECURSIVE SeqsUpTo(_, _)
SeqsUpTo(S, n) ==
    IF n = 0 THEN {<<>>}
    ELSE SeqsUpTo(S, n - 1) \cup {Append(q, x) : q \in SeqsUpTo(S, n - 1), x \in S}

Chunks == SeqsUpTo(Bytes, MaxChunk) \ {<<>>}
TextChunks == SeqsUpTo(TextBytes, MaxChunk) \ {<<>>}

\* what arrives between bursts: "a", which the next burst continues
TailChunks == {<<ChA>>}

\* a burst: BurstLines terminated lines, "a" and U+FFFD in turn
BurstChunk == [i \in 1..(2 * BurstLines) |->
                  IF i % 2 = 0 THEN LF ELSE IF i % 4 = 1 THEN ChA ELSE 255]

\* plain text typed at the other end, a key at a time: "a" and Enter
PlainChunks == {<<ChA>>, <<LF>>}

\* texts installed in one piece: "a", newline, "a"
ContentTexts == {<<ChA, LF, ChA>>}

\* lines a selection is dragged over: "a", and "a", U+FFFD, "a", which wraps
RowChunks == {<<ChA, LF>>, <<ChA, 255, ChA, LF>>}

\* filter strings typed by the user: "", "a", "a." and "["
FilterStrings == {<<>>, <<ChA>>, <<ChA, ChDot>>, <<ChLBracket>>}

\* highlight rules the user may configure: "a" and "aa" as plain keywords,
\* "a." and "[" as regular expressions
HighlightCatalogue ==
    { [keyword |-> <<ChA>>, use_regex |-> FALSE,
       bg_color |-> "#FFFF00", text_color |-> "#FF0000"],
      [keyword |-> <<ChA, ChA>>, use_regex |-> FALSE,
       bg_color |-> "#FF0000", text_color |-> ""],
      [keyword |-> <<ChA, ChDot>>, use_regex |-> TRUE,
       bg_color |-> "#00FF00", text_color |-> ""],
      [keyword |-> <<ChLBracket>>, use_regex |-> TRUE,
       bg_color |-> "#0000FF", text_color |-> ""] }

\* rule lists without repeated rules
RuleLists ==
    {rules \in SeqsUpTo(HighlightCatalogue, MaxRules) :
        \A i, j \in 1..Len(rules) : i # j => rules[i] # rules[j]}

\* hex view: a frame of binary data around the ends of the printable range,
\* and a shorter one that fills the row a frame has begun
HexBytes == <<31, 32, 126, 127, ChA, LF, 255, 0>>
HexFrame == [k \in 1..HexFrameLen |-> HexBytes[((k - 1) % Len(HexBytes)) + 1]]
HexChunks == {HexFrame, SubSeq(HexFrame, 1, bytes_per_line - HexFrameLen)}
ViewModes == {"TEXT_ONLY", "HEX_STREAM"}

\* viewport sizes <<width, height>> in pixels
Viewports == {<<36, 2>>, <<37, 4>>}

\* viewport sizes of the wrapping runs: available widths 1, 1, 2, 3 and 4
WrapViewports == {<<30, 2>>, <<35, 2>>, <<36, 2>>, <<37, 2>>, <<38, 2>>}

\* viewport sizes of a window that is resized: available widths 2 and 4
\* without the timestamp column
ResizeViewports == {<<36, 2>>, <<38, 2>>}

MaxLinesChoices == {0, 39, 105}

\* the raw log holds burst chunks and ordinary chunks: the counts of each
BurstsIn(s) == Len(s.raw_bytes) \div (2 * BurstLines)
OrdinaryBytesIn(s) == Len(s.raw_bytes) % (2 * BurstLines)

(***************************************************************************)
(* Init: the widget after __init__                                         *)
(***************************************************************************)
Constructed(vp) ==
    _update_metrics(
        [ lines |-> <<>>, line_timestamps |-> <<>>,
          raw_bytes |-> <<>>, line_offset |-> 0,
          max_lines |-> 50000, current_line_index |-> -1,
          sel_start_pos |-> None, sel_end_pos |-> None,
          pending_update |-> FALSE, timer_active |-> FALSE, timer_starts |-> 0,
          auto_scroll |-> TRUE, show_timestamp |-> FALSE,
          filter_pattern |-> NoPattern, filter_enabled |-> FALSE,
          filter_regex_str |-> <<>>, filter_use_regex |-> TRUE,
          filter_cache |-> <<>>, wrapped_lines_cache |-> <<>>,
          cached_available_width |-> -1,
          highlight_cache |-> <<>>,
          cached_total_display_lines |-> 0,
          total_display_lines_dirty |-> TRUE,
          line_num_area_width |-> 0, timestamp_width |-> 0,
          viewport_w |-> vp[1], viewport_h |-> vp[2],
          sb_max |-> 0, sb_value |-> 0,
          is_selecting |-> FALSE, view_mode |-> "TEXT_ONLY",
          highlight_rules |-> <<>>, highlight_enabled |-> TRUE,
          clipboard |-> <<>>, now |-> 0 ])

\* the widget is s
Is(s) ==
    /\ lines = s.lines
    /\ line_timestamps = s.line_timestamps
    /\ raw_bytes = s.raw_bytes
    /\ line_offset = s.line_offset
    /\ max_lines = s.max_lines
    /\ current_line_index = s.current_line_index
    /\ sel_start_pos = s.sel_start_pos
    /\ sel_end_pos = s.sel_end_pos
    /\ pending_update = s.pending_update
    /\ timer_active = s.timer_active
    /\ timer_starts = s.timer_starts
    /\ auto_scroll = s.auto_scroll
    /\ show_timestamp = s.show_timestamp
    /\ filter_pattern = s.filter_pattern
    /\ filter_enabled = s.filter_enabled
    /\ filter_regex_str = s.filter_regex_str
    /\ filter_use_regex = s.filter_use_regex
    /\ filter_cache = s.filter_cache
    /\ wrapped_lines_cache = s.wrapped_lines_cache
    /\ cached_available_width = s.cached_available_width
    /\ highlight_cache = s.highlight_cache
    /\ cached_total_display_lines = s.cached_total_display_lines
    /\ total_display_lines_dirty = s.total_display_lines_dirty
    /\ line_num_area_width = s.line_num_area_width
    /\ timestamp_width = s.timestamp_width
    /\ viewport_w = s.viewport_w
    /\ viewport_h = s.viewport_h
    /\ sb_max = s.sb_max
    /\ sb_value = s.sb_value
    /\ is_selecting = s.is_selecting
    /\ view_mode = s.view_mode
    /\ highlight_rules = s.highlight_rules
    /\ highlight_enabled = s.highlight_enabled
    /\ clipboard = s.clipboard
    /\ now = s.now

Init ==
    /\ \E vp \in Viewports : Is(Constructed(vp))
    /\ follow = "idle"
    /\ session = <<>>

InitSelect ==
    /\ Is(Constructed(<<36, 2>>))
    /\ follow = "idle"
    /\ session = <<>>

InitHighlight ==
    /\ Is(Constructed(<<37, 4>>))
    /\ follow = "idle"
    /\ session = <<>>

InitWrap ==
    /\ \E vp \in WrapViewports : Is(Constructed(vp))
    /\ follow = "idle"
    /\ session = <<>>

(***************************************************************************)
(* Actions: one per entry point of the widget                              *)
(***************************************************************************)
\* the scroll bar is at, or within one row of, its maximum
AtBottom(s) == s.sb_value >= s.sb_max - 1

\* follow after an append of data
FollowAfterAppend(data) ==
    IF AtBottom(self) \/ auto_scroll
    THEN IF append_raw_bytes(self, data).pending_update THEN "owed" ELSE "due"
    ELSE IF append_raw_bytes(self, data).pending_update THEN follow ELSE "idle"

AppendData(data) ==
    /\ Becomes(append_raw_bytes(self, data))
    /\ follow' = FollowAfterAppend(data)
    /\ session' = session \o data

AppendChunk ==
    \E data \in Chunks :
        /\ OrdinaryBytesIn(self) + Len(data) <= MaxRaw
        /\ AppendData(data)

AppendText ==
    \E data \in TextChunks :
        /\ OrdinaryBytesIn(self) + Len(data) <= MaxRaw
        /\ AppendData(data)

AppendTail ==
    \E data \in TailChunks :
        /\ OrdinaryBytesIn(self) = 0
        /\ AppendData(data)

AppendLine ==
    \E data \in TextChunks :
        /\ Len(raw_bytes) + Len(data) <= MaxLineLen
        /\ AppendData(data)

AppendBurst ==
    /\ BurstsIn(self) < MaxBursts
    /\ AppendData(BurstChunk)

TimerFires ==
    /\ timer_active
    /\ \E s \in {[_do_pending_update(self) EXCEPT !.timer_active = FALSE,
                                                    !.timer_starts = 0]} : Becomes(s)
    /\ follow' = IF follow = "owed" THEN "due" ELSE "idle"
    /\ UNCHANGED session

Paint ==
    /\ Becomes(paintEvent(self))
    /\ UNCHANGED <<follow, session>>

\* the user moves the slider to the top, the middle or the bottom
ScrollTargets(s) == {0, s.sb_max \div 2, s.sb_max}

Scroll ==
    \E v \in ScrollTargets(self) :
        /\ v # sb_value
        /\ Becomes(SetValue(self, v))
        /\ follow' = "idle"
        /\ UNCHANGED session

SetFilterPattern ==
    \E p \in FilterStrings :
        /\ Becomes(set_filter_pattern(self, p))
        /\ follow' = "idle"
        /\ UNCHANGED session

SetFilterUseRegex ==
    \E b \in BOOLEAN :
        /\ Becomes(set_filter_use_regex(self, b))
        /\ follow' = "idle"
        /\ UNCHANGED session

SetFilterEnabled ==
    \E b \in BOOLEAN :
        /\ Becomes(set_filter_enabled(self, b))
        /\ follow' = "idle"
        /\ UNCHANGED session

SetMaxLines ==
    \E n \in MaxLinesChoices :
        /\ Becomes(set_max_lines(self, n))
        /\ follow' = "idle"
        /\ UNCHANGED session

SetAutoScroll ==
    \E b \in BOOLEAN :
        /\ Becomes(set_auto_scroll(self, b))
        /\ follow' = "idle"
        /\ UNCHANGED session

Clear ==
    /\ Becomes(clear(self))
    /\ follow' = "idle"
    /\ session' = <<>>

\* the user jumps to a line number: 0, the first line, the last line, or one
\* past the last line
GotoTargets(s) == {0, 1, Len(s.lines), Len(s.lines) + 1}

GotoLine ==
    \E line_no \in GotoTargets(self) :
        /\ Becomes(goto_line(self, line_no))
        /\ follow' = "idle"
        /\ UNCHANGED session

\* pointer positions (x, y): right of the text on the first row of the viewport
Pointers(s) == {<<s.viewport_w - 1, 0>>}

MousePress ==
    \E p \in Pointers(self) :
        /\ ~is_selecting
        /\ Becomes(mousePressEvent(self, p[1], p[2]))
        /\ UNCHANGED <<follow, session>>

MouseMove ==
    \E p \in Pointers(self) :
        /\ is_selecting
        /\ Becomes(mouseMoveEvent(self, p[1], p[2]))
        /\ UNCHANGED <<follow, session>>

MouseRelease ==
    /\ is_selecting
    /\ Becomes(mouseReleaseEvent(self))
    /\ UNCHANGED <<follow, session>>

SetHighlightRules ==
    \E rules \in RuleLists :
        /\ rules # highlight_rules
        /\ Becomes(set_highlight_rules(self, rules))
        /\ UNCHANGED <<follow, session>>

SetHighlightEnabled ==
    \E enabled \in BOOLEAN :
        /\ enabled # highlight_enabled
        /\ Becomes(set_highlight_enabled(self, enabled))
        /\ UNCHANGED <<follow, session>>

ClearHighlightRules ==
    /\ highlight_rules # <<>>
    /\ Becomes(clear_highlight_rules(self))
    /\ UNCHANGED <<follow, session>>

AppendHex ==
    \E data \in HexChunks :
        /\ Len(raw_bytes) + Len(data) <= MaxHexBytes
        /\ AppendData(data)

SetViewMode ==
    \E mode \in ViewModes :
        /\ mode # view_mode
        /\ Becomes(set_view_mode(self, mode))
        /\ follow' = "idle"
        /\ UNCHANGED session

\* the user drags the window edge: the viewport becomes narrower or wider
Resize ==
    \E vp \in ResizeViewports :
        /\ vp # <<viewport_w, viewport_h>>
        /\ Becomes(resizeEvent(self, vp[1], vp[2]))
        /\ follow' = "idle"
        /\ UNCHANGED session

SetShowTimestamp ==
    \E show \in BOOLEAN :
        /\ show # show_timestamp
        /\ Becomes(set_show_timestamp(self, show))
        /\ follow' = "idle"
        /\ UNCHANGED session

SetContent ==
    \E text \in ContentTexts :
        /\ Becomes(set_content(self, text))
        /\ follow' = "idle"
        /\ session' = <<>>

AppendPlain ==
    \E data \in PlainChunks :
        /\ Len(raw_bytes) + Len(data) <= MaxPlain
        /\ AppendData(data)

AppendRow ==
    \E data \in RowChunks :
        /\ Len(lines) < MaxCopyRows
        /\ AppendData(data)

\* time passes
ClockTicks ==
    /\ now < MaxTime
    /\ Becomes([self EXCEPT !.now = @ + 1])
    /\ UNCHANGED <<follow, session>>

\* pointer positions of a drag: at the left and the right end of the first
\* and the third row from the top of the viewport (a drag may leave the viewport)
DragPointers(s) ==
    {<<x, y>> : x \in {s.line_num_area_width + 5, s.viewport_w - 1},
                y \in {0, 2 * line_height}}

PressAnywhere ==
    \E p \in DragPointers(self) :
        /\ ~is_selecting
        /\ Becomes(mousePressEvent(self, p[1], p[2]))
        /\ UNCHANGED <<follow, session>>

DragAnywhere ==
    \E p \in DragPointers(self) :
        /\ is_selecting
        /\ Becomes(mouseMoveEvent(self, p[1], p[2]))
        /\ UNCHANGED <<follow, session>>

\* Ctrl+C
CopySelection ==
    /\ Becomes(copy_selection(self))
    /\ UNCHANGED <<follow, session>>

\* the viewer: text arrives, is filtered, wrapped, scrolled and painted
Next ==
    \/ AppendText
    \/ TimerFires
    \/ Paint
    \/ Scroll
    \/ SetFilterPattern
    \/ SetFilterUseRegex
    \/ SetFilterEnabled
    \/ SetAutoScroll
    \/ Clear

Spec == Init /\ [][Next]_vars

\* the line store: chunks of any bytes arrive under a retention limit
NextStore ==
    \/ AppendChunk
    \/ TimerFires
    \/ Paint
    \/ SetMaxLines
    \/ Clear

SpecStore == Init /\ [][NextStore]_vars

\* reading back while lines arrive: the user turns auto-scroll off and moves
\* the slider of an untrimmed log
NextScroll ==
    \/ AppendRow
    \/ TimerFires
    \/ Scroll
    \/ SetAutoScroll

SpecScroll == InitSelect /\ [][NextScroll]_vars

\* jumping about a log that is cleared: rows arrive, the user jumps to line
\* numbers, the view is painted and the log is cleared
NextGoto ==
    \/ AppendRow
    \/ TimerFires
    \/ Paint
    \/ GotoLine
    \/ Clear

SpecGoto == InitSelect /\ [][NextGoto]_vars

\* filtering a log that grows a key at a time: the user edits the pattern,
\* switches the mode and turns the filter on and off
NextFilter ==
    \/ AppendPlain
    \/ TimerFires
    \/ SetFilterPattern
    \/ SetFilterUseRegex
    \/ SetFilterEnabled

SpecFilter == InitSelect /\ [][NextFilter]_vars

\* the store and its timestamps while the clock runs: bursts and single
\* characters arrive under limits that let lines survive a trim, and a text is
\* installed in one piece
NextStamp ==
    \/ AppendBurst
    \/ AppendTail
    \/ SetMaxLines /\ max_lines' > MinTrimBuffer
    \/ SetContent
    \/ ClockTicks

SpecStamp == InitSelect /\ [][NextStamp]_vars

\* the line store under the event loop, which delivers the timeout of an armed
\* single-shot timer: keys arrive under a limit of one line, the log is cleared
NextRefresh ==
    \/ AppendPlain
    \/ TimerFires
    \/ SetMaxLines /\ max_lines' = 1
    \/ Clear

SpecRefresh == InitSelect /\ [][NextRefresh]_vars /\ WF_vars(TimerFires)

\* the line store under load: bursts fill the store past the limit
NextTrim ==
    \/ AppendBurst
    \/ AppendTail
    \/ TimerFires
    \/ SetMaxLines
    \/ SetAutoScroll

SpecTrim == Init /\ [][NextTrim]_vars

\* selecting: a current line and a selection over a store that is trimmed,
\* under limits above the trim buffer, which let lines survive a trim
NextSelect ==
    \/ AppendBurst
    \/ TimerFires
    \/ SetMaxLines /\ max_lines' > MinTrimBuffer
    \/ GotoLine
    \/ MousePress
    \/ MouseMove
    \/ MouseRelease

SpecSelect == InitSelect /\ [][NextSelect]_vars

\* highlighting: text arrives and is painted under changing rule lists
NextHighlight ==
    \/ AppendText
    \/ TimerFires
    \/ Paint
    \/ SetHighlightRules
    \/ SetHighlightEnabled
    \/ ClearHighlightRules

SpecHighlight == InitHighlight /\ [][NextHighlight]_vars

\* the hex view: binary frames arrive and are shown in either view
NextHex ==
    \/ AppendHex
    \/ TimerFires
    \/ SetViewMode
    \/ Scroll
    \/ Paint

SpecHex == Init /\ [][NextHex]_vars

\* wrapping: lines of text laid out under narrow and wide viewports
NextWrap ==
    \/ AppendLine
    \/ TimerFires
    \/ Paint

SpecWrap == InitWrap /\ [][NextWrap]_vars

\* copying: lines arrive while the user drags selections and copies them
NextCopy ==
    \/ AppendRow
    \/ TimerFires
    \/ PressAnywhere
    \/ DragAnywhere
    \/ MouseRelease
    \/ CopySelection

SpecCopy == InitHighlight /\ [][NextCopy]_vars

\* the viewer in use: text is typed, filtered, highlighted, selected in,
\* trimmed, painted and cleared
NextClear ==
    \/ AppendPlain
    \/ TimerFires
    \/ Paint
    \/ MousePress
    \/ SetFilterPattern /\ filter_regex_str' = <<ChA>>
    \/ SetFilterEnabled /\ filter_enabled'
    \/ SetHighlightRules /\ Len(highlight_rules') = 1 /\ highlight_rules'[1].keyword = <<ChA>>
    \/ SetMaxLines /\ max_lines' = 1
    \/ Clear

SpecClear == InitSelect /\ [][NextClear]_vars

\* the same viewer when the host also installs whole texts
NextContent ==
    \/ AppendPlain
    \/ TimerFires
    \/ Paint
    \/ MousePress
    \/ SetFilterPattern /\ filter_regex_str' = <<ChA>>
    \/ SetFilterEnabled /\ filter_enabled'
    \/ SetHighlightRules /\ Len(highlight_rules') = 1 /\ highlight_rules'[1].keyword = <<ChA>>
    \/ SetMaxLines /\ max_lines' = 1
    \/ Clear
    \/ SetContent

SpecContent == InitSelect /\ [][NextContent]_vars

\* resizing: complete lines arrive in a window whose width changes
NextResize ==
    \/ AppendRow
    \/ TimerFires
    \/ Paint
    \/ Resize
    \/ SetShowTimestamp

SpecResize == InitSelect /\ [][NextResize]_vars

\* trimming a viewer in use: the filter and the highlight rules are set up,
\* then bursts fill the painted store past a limit that lets lines survive
NextPurge ==
    \/ AppendBurst
    \/ TimerFires
    \/ Paint
    \/ SetMaxLines /\ max_lines' > MinTrimBuffer
    \/ SetFilterPattern /\ filter_regex_str' = <<ChA>> /\ lines = <<>>
    \/ SetFilterEnabled /\ filter_enabled' /\ lines = <<>>
    \/ SetHighlightRules /\ Len(highlight_rules') = 1 /\ highlight_rules'[1].keyword = <<ChA>>
                         /\ lines = <<>>

SpecPurge == InitSelect /\ [][NextPurge]_vars

(***************************************************************************)
(* Reference definitions used by the properties                            *)
(***************************************************************************)
\* the current filter evaluated on a text, without the filter cache
ColdPasses(s, text) ==
    IF ~s.filter_enabled \/ s.filter_pattern.kind = "none" THEN TRUE
    ELSE FilterEval(s, text).result

\* the display rows of row i recomputed without any cache
ColdRowCount(s, i) ==
    IF ColdPasses(s, LineAt(s, i))
    THEN Len(WrapText(LineAt(s, i), _get_available_width(s)))
    ELSE 0

RECURSIVE ColdSum(_, _, _)
ColdSum(s, lo, hi) ==
    IF hi <= lo THEN 0
    ELSE IF hi = lo + 1 THEN ColdRowCount(s, lo)
    ELSE ColdSum(s, lo, (lo + hi) \div 2) + ColdSum(s, (lo + hi) \div 2, hi)

Rows == 0..(Len(lines) - 1)

\* a step of append_raw_bytes, and the chunk it was given
IsAppendStep == Len(raw_bytes') > Len(raw_bytes)
StepData == SubSeq(raw_bytes', Len(raw_bytes) + 1, Len(raw_bytes'))

IsSuffix(a, b) == Len(a) <= Len(b) /\ a = SubSeq(b, Len(b) - Len(a) + 1, Len(b))

RECURSIVE Concat(_, _)
Concat(segs, n) == IF n <= 0 THEN <<>> ELSE Concat(segs, n - 1) \o segs[n]

(***************************************************************************)
(* C1: _get_total_display_lines() is the sum, over the lines whose current *)
(* text passes the current filter, of the wrap segments of the current     *)
(* text at the current available width, recomputed without the caches.     *)
(***************************************************************************)
C1_TotalIsRecount ==
    _get_total_display_lines_ret(self) = ColdSum(self, 0, Len(lines))

(***************************************************************************)
(* C2: an append concatenates its first segment onto the last line exactly *)
(* when the store is non-empty and the previous raw byte did not end a     *)
(* line; every other segment becomes a new line.                           *)
(***************************************************************************)
C2_ClaimedLines ==
    LET segs == splitlines(Utf8Decode(StepData))
        continues == /\ lines # <<>>
                     /\ raw_bytes # <<>>
                     /\ raw_bytes[Len(raw_bytes)] \notin {LF, CR}
    IN  IF continues /\ segs # <<>>
        THEN [lines EXCEPT ![Len(lines)] = @ \o segs[1]] \o Tail(segs)
        ELSE lines \o segs

C2_ConcatIffUnterminated ==
    [][IsAppendStep /\ line_offset' = line_offset => lines' = C2_ClaimedLines]_vars

(***************************************************************************)
(* C3: an append that pushes len(lines) past max_lines * 1.1 leaves        *)
(* len(lines) <= max_lines + max(0.1 * max_lines, 100), and the lines left *)
(* are a suffix of the list before the trim.                               *)
(***************************************************************************)
C3_PreTrim == [self EXCEPT !.lines = AppendedLines(self, StepData)]

C3_TrimKeepsNewest ==
    [][IsAppendStep /\ OverThreshold(C3_PreTrim) =>
          /\ 10 * (Len(lines') - max_lines) <= Max(max_lines, 1000)
          /\ IsSuffix(lines', C3_PreTrim.lines)]_vars

\* an append has just trimmed the store and lines survive
C3_Witness ==
    /\ line_offset > 0
    /\ lines # <<>>
    /\ total_display_lines_dirty
    /\ ~pending_update

C5_CacheHitIsCold ==
    /\ \A i \in Rows :
          _get_wrapped_lines_ret(_get_wrapped_lines(self, LineAt(self, i), i), LineAt(self, i), i)
              = _get_wrapped_lines_ret(self, LineAt(self, i), i)
    /\ \A k \in DOMAIN wrapped_lines_cache :
          (k[1] - line_offset) \in Rows =>
              wrapped_lines_cache[k] = WrapText(LineAt(self, k[1] - line_offset), k[2])

(***************************************************************************)
(* C6: _get_wrapped_lines is the greedy segmentation: the segments joined  *)
(* give the text, each is as long as the width allows, a character wider   *)
(* than the width stands alone, no segment of a non-empty text is empty    *)
(* and the empty text gives [""].                                          *)
(***************************************************************************)
IsGreedy(text, w, segs) ==
    /\ Len(segs) >= 1
    /\ Concat(segs, Len(segs)) = text
    /\ text = <<>> => segs = << <<>> >>
    /\ text # <<>> => \A k \in 1..Len(segs) : segs[k] # <<>>
    /\ \A k \in 1..Len(segs) :
          \/ FontWidth(segs[k]) <= w
          \/ Len(segs[k]) = 1 /\ CharPixels(segs[k][1]) > w
    /\ \A k \in 1..(Len(segs) - 1) :
          FontWidth(segs[k]) + CharPixels(segs[k + 1][1]) > w

C6_WrapIsGreedy ==
    \A i \in Rows :
        LET r == _get_wrapped_lines(self, LineAt(self, i), i)
        IN  /\ IsGreedy(LineAt(self, i), _get_available_width(self),
                        WrapText(LineAt(self, i), _get_available_width(self)))
            /\ WrapKey(self, i) \notin DOMAIN wrapped_lines_cache /\ LineAt(self, i) # <<>> =>
                  IsGreedy(LineAt(self, i), _get_available_width(self),
                           r.wrapped_lines_cache[WrapKey(self, i)])

\* a line with a character wider than the available width after narrower ones
C6_Witness ==
    \E i \in Rows :
        /\ Len(LineAt(self, i)) >= 3
        /\ \E p \in 2..Len(LineAt(self, i)) : CharPixels(LineAt(self, i)[p]) > _get_available_width(self)
        /\ WrapKey(self, i) \in DOMAIN wrapped_lines_cache
        /\ Len(wrapped_lines_cache[WrapKey(self, i)]) >= 3

(***************************************************************************)
(* C7: _line_matches_filter is true for every line when filtering is off,  *)
(* and with a valid non-empty pattern true exactly for the lines that      *)
(* contain it (substring mode) or that a regex search matches.             *)
(***************************************************************************)
C7_FilterIsPredicate ==
    \A i \in Rows :
        /\ ~filter_enabled => _line_matches_filter_ret(self, LineAt(self, i), i)
        /\ filter_enabled /\ filter_regex_str # <<>>
                /\ (filter_use_regex => ~RegexInvalid(filter_regex_str)) =>
              _line_matches_filter_ret(self, LineAt(self, i), i)
                  = IF filter_use_regex
                    THEN RegexSearch(filter_regex_str, LineAt(self, i))
                    ELSE Contains(LineAt(self, i), filter_regex_str)

(***************************************************************************)
(* C8: with an invalid regex as the filter pattern, filtering enabled and  *)
(* regex mode on, the filter fails open: no pattern is installed, no       *)
(* search can raise and every line passes.                                 *)
(***************************************************************************)
InvalidRegexSet ==
    filter_enabled /\ filter_use_regex /\ filter_regex_str # <<>>
        /\ RegexInvalid(filter_regex_str)

C8_InvalidRegexFailsOpen ==
    InvalidRegexSet =>
        /\ \A i \in Rows : _line_matches_filter_ret(self, LineAt(self, i), i)
        /\ \A i \in Rows : RowCount(self, i) >= 1
        /\ \A i \in Rows : filter_pattern.kind # "none" => ~FilterEval(self, LineAt(self, i)).raised

\* an invalid regex is set and lines that do not contain it have arrived
C8_Witness ==
    /\ InvalidRegexSet
    /\ Len(lines) >= 2
    /\ pending_update
    /\ \A i \in Rows : ~Contains(LineAt(self, i), filter_regex_str)

(***************************************************************************)
(* C9: mapping a display row to (source row, column) and back gives the    *)
(* display row again, for every display row of the index.                  *)
(***************************************************************************)
C9_RoundTrip ==
    \A d \in 0..(SumRows(self, 0, Len(lines)) - 1) :
        LET there == _display_row_to_source_row_col(self, d)
        IN  _source_row_col_to_display_row(there.s, there.ret[1], there.ret[2]).ret = d

\* a wrapped line below a line the filter hides, and an empty line
C9_Witness ==
    /\ \E i \in Rows : \E j \in Rows :
          j < i /\ ~RowPasses(self, j) /\ RowCount(self, i) >= 2
    /\ filter_enabled

(***************************************************************************)
(* C10: when an append was made with the scroll bar at (or within one row  *)
(* of) its maximum, or with auto-scroll on, the scroll bar is at the new   *)
(* maximum once the refresh of that append has run.                        *)
(***************************************************************************)
C10_FollowsBottom == follow = "due" => sb_value = sb_max

(***************************************************************************)
(* C11: whenever no refresh is pending, the vertical scroll bar range is   *)
(* [0, max(0, total_rows - rows_per_page)], total_rows being the true      *)
(* display row count of the current lines and rows_per_page the viewport   *)
(* height divided by the line height.                                      *)
(***************************************************************************)
C11_ScrollRangeIsTrue ==
    ~pending_update =>
        sb_max = Max(0, ColdSum(self, 0, Len(lines)) - viewport_h \div line_height)

(***************************************************************************)
(* C12 to C15: the trim                                                    *)
(***************************************************************************)
\* buffer = max(10% of max_lines, 100)
TrimBuffer(m) == Max(m \div 10, 100)

\* the list a step trimmed: the list the append built, or the list as it was
TrimmedFrom == IF IsAppendStep THEN C3_PreTrim.lines ELSE lines

\* a step that evicts lines from the front of the store
IsTrimStep == line_offset' > line_offset

\* the number of lines a trim step evicts
EvictedCount == Len(TrimmedFrom) - Len(lines')

\* row r referred to a line before the trim, which the trim kept or evicted
Survives(r) == EvictedCount <= r /\ r < Len(TrimmedFrom)
IsEvicted(r) == 0 <= r /\ r < EvictedCount

\* row r1 after the trim is the line that row r was before it
SameLine(r, r1) ==
    /\ r1 = r - EvictedCount
    /\ 0 <= r1 /\ r1 < Len(lines')
    /\ lines'[r1 + 1] = TrimmedFrom[r + 1]

\* what a trim does to current_line_index
IndexFollowsTrim ==
    /\ Survives(current_line_index) => SameLine(current_line_index, current_line_index')
    /\ IsEvicted(current_line_index) => current_line_index' = -1
    /\ current_line_index = -1 => current_line_index' = -1

\* an end point of a surviving line is moved with its line
EndpointShifted(pos, pos1) ==
    /\ pos1 # None
    /\ SameLine(pos[1], pos1[1])
    /\ pos1[2] = pos[2]

\* C12 as stated: on a trim the current line index and each end point of the
\* selection, taken by itself, moves with its line when the line survives and
\* is cleared when the line is evicted
C12_EachEndpointFollowsTrim ==
    [][IsTrimStep =>
          /\ IndexFollowsTrim
          /\ sel_start_pos # None /\ Survives(sel_start_pos[1])
                => EndpointShifted(sel_start_pos, sel_start_pos')
          /\ sel_start_pos # None /\ IsEvicted(sel_start_pos[1]) => sel_start_pos' = None
          /\ sel_end_pos # None /\ Survives(sel_end_pos[1])
                => EndpointShifted(sel_end_pos, sel_end_pos')
          /\ sel_end_pos # None /\ IsEvicted(sel_end_pos[1]) => sel_end_pos' = None]_vars

\* the end points of the selection that are set
SelectionEnds == {sel_start_pos, sel_end_pos} \ {None}

\* C12 amended: on a trim the current line index moves with its line or is
\* cleared (-1) when its line is evicted; the selection moves with its lines
\* when the lines of both end points survive and is cleared as a whole (both
\* end points None) when the line of either end point is evicted
C12_SelectionFollowsTrim ==
    [][IsTrimStep =>
          /\ IndexFollowsTrim
          /\ (\A pos \in SelectionEnds : Survives(pos[1])) =>
                /\ sel_start_pos # None => EndpointShifted(sel_start_pos, sel_start_pos')
                /\ sel_end_pos # None => EndpointShifted(sel_end_pos, sel_end_pos')
                /\ sel_start_pos = None => sel_start_pos' = None
                /\ sel_end_pos = None => sel_end_pos' = None
          /\ (\E pos \in SelectionEnds : IsEvicted(pos[1])) =>
                sel_start_pos' = None /\ sel_end_pos' = None]_vars

\* a trim has cleared the selection of a drag that is still going on, and a
\* current line is set
C12_Witness ==
    /\ line_offset > 0
    /\ is_selecting
    /\ sel_start_pos = None
    /\ sel_end_pos = None
    /\ current_line_index >= 0

(***************************************************************************)
(* C13 as stated: right after a trim triggered by an append,               *)
(* len(lines) = max_lines + buffer.                                        *)
(***************************************************************************)
C13_TrimToLimitPlusBuffer ==
    [][IsAppendStep /\ OverThreshold(C3_PreTrim) =>
          Len(lines') = max_lines + TrimBuffer(max_lines)]_vars

(***************************************************************************)
(* C13 as amended: a trim triggered by an append evicts, in one batch from *)
(* the front, the excess over max_lines plus the buffer: right after it    *)
(* len(lines) = max(0, max_lines - buffer), the line offset has grown by   *)
(* excess + buffer and the lines left are the newest ones.                 *)
(***************************************************************************)
C13_TrimToLimitMinusBuffer ==
    [][IsAppendStep /\ OverThreshold(C3_PreTrim) =>
          /\ Len(lines') = Max(0, max_lines - TrimBuffer(max_lines))
          /\ line_offset' - line_offset
                = Len(C3_PreTrim.lines) - max_lines + TrimBuffer(max_lines)
          /\ IsSuffix(lines', C3_PreTrim.lines)]_vars

\* an append has just trimmed a store whose limit is larger than the buffer
C13_Witness ==
    /\ line_offset > 0
    /\ max_lines > TrimBuffer(max_lines)
    /\ Len(lines) = max_lines - TrimBuffer(max_lines)
    /\ total_display_lines_dirty

C15_WithinThreshold == 100 * Len(lines) <= 110 * max_lines

\* one chunk with more lines than the limit has been appended and trimmed
C15_Witness ==
    /\ max_lines < BurstLines
    /\ line_offset >= BurstLines
    /\ Len(raw_bytes) = 2 * BurstLines

(***************************************************************************)
(* C16: while no trim has occurred, the lines do not depend on how the     *)
(* byte stream was cut into chunks: they are the lines one call of         *)
(* append_raw_bytes with the whole stream gives on an empty store.         *)
(***************************************************************************)
C16_FramingIndependent ==
    line_offset = 0 /\ session # <<>> =>
        lines = AppendedLines(clear(self), session)

(***************************************************************************)
(* C17 to C19: highlight matches                                           *)
(***************************************************************************)
\* the rows that hold text, and the match list a paint gets for such a row
TextRows == {i \in 0..(Len(lines) - 1) : LineAt(self, i) # <<>>}
ReportedMatches(i) == _find_highlight_matches_ret(self, LineAt(self, i), i + line_offset)

\* the rules of the list that are plain keywords, and those that can match
KeywordRules == {r \in 1..Len(highlight_rules) :
                    ~highlight_rules[r].use_regex /\ highlight_rules[r].keyword # <<>>}
MatchingRules == {r \in 1..Len(highlight_rules) :
                     highlight_rules[r].keyword # <<>> /\ ~RuleRaises(highlight_rules[r])}

\* keyword occurs in text at position p
OccursAt(keyword, text, p) ==
    /\ p + Len(keyword) <= Len(text)
    /\ \A j \in 1..Len(keyword) : text[p + j] = keyword[j]

\* the span a rule reports for an occurrence at p
SpanOf(rule, p) ==
    <<p, p + Len(rule.keyword), QColor(rule.bg_color), QColor(rule.text_color)>>

\* C17: with highlighting on, the match list of a line holds the span
\* (p, p + len(keyword)) in the colours of a plain-keyword rule exactly when
\* the keyword occurs in the line's text at position p
C17_KeywordSpans ==
    highlight_enabled =>
        \A i \in TextRows : \A r \in KeywordRules : \A p \in 0..Len(LineAt(self, i)) :
            (\E k \in DOMAIN ReportedMatches(i) :
                 ReportedMatches(i)[k] = SpanOf(highlight_rules[r], p))
            <=> OccursAt(highlight_rules[r].keyword, LineAt(self, i), p)

\* the rule a match comes from: the rules of a list differ in their colours
RuleOf(match) == CHOOSE r \in 1..Len(highlight_rules) :
                     QColor(highlight_rules[r].bg_color) = match[3]

\* C18: the match list of a line holds the matches of every rule that can
\* match, ordered by start, matches of equal start in the order of the rules
C18_AllRulesInOrder ==
    highlight_enabled =>
        \A i \in TextRows :
            LET ms == ReportedMatches(i)
            IN  /\ \A r \in MatchingRules :
                      LET own == RuleMatches(highlight_rules[r], LineAt(self, i))
                      IN  \A k \in DOMAIN own : \E j \in DOMAIN ms : ms[j] = own[k]
                /\ \A j, k \in DOMAIN ms :
                      j < k => \/ ms[j][1] < ms[k][1]
                               \/ ms[j][1] = ms[k][1] /\ RuleOf(ms[j]) <= RuleOf(ms[k])

\* the rule list without the rules whose pattern does not compile
Compiles(rule) == ~RuleRaises(rule)
CompilingRules(rules) == SelectSeq(rules, Compiles)

\* C19: under a rule list that holds a rule whose pattern does not compile,
\* the match list of a line is the list the other rules give by themselves:
\* on the line's text when the list is computed, on the text the line had
\* when its cache entry was computed otherwise
C19_BadRuleIsSkipped ==
    highlight_enabled /\ CompilingRules(highlight_rules) # highlight_rules =>
        \A i \in TextRows :
            IF (i + line_offset) \in DOMAIN highlight_cache
            THEN \E n \in 1..Len(LineAt(self, i)) :
                     ReportedMatches(i) =
                         HighlightMatches(CompilingRules(highlight_rules),
                                          SubSeq(LineAt(self, i), 1, n))
            ELSE ReportedMatches(i) =
                     HighlightMatches(CompilingRules(highlight_rules), LineAt(self, i))

\* a paint has stored matches under a list whose first rule does not compile
C19_Witness ==
    /\ highlight_enabled
    /\ Len(highlight_rules) >= 2
    /\ RuleRaises(highlight_rules[1])
    /\ \E idx \in DOMAIN highlight_cache : highlight_cache[idx] # <<>>

(***************************************************************************)
(* C20: the hex view                                                       *)
(***************************************************************************)
\* the characters 0-9 and A-F, and the number a string of them denotes
IsUpperHex(c) == c \in 48..57 \/ c \in 65..70
DigitValue(c) == IF c <= 57 THEN c - 48 ELSE c - 55

RECURSIVE HexNumber(_, _)
HexNumber(digits, n) ==
    IF n = 0 THEN 0 ELSE 16 * HexNumber(digits, n - 1) + DigitValue(digits[n])

\* the number of bytes in the rows 0 .. n-1 of the hex view
RECURSIVE HexBytesShown(_)
HexBytesShown(n) ==
    IF n = 0 THEN 0 ELSE HexBytesShown(n - 1) + Len(HexRow(self, n - 1).chunk)

\* row i of the hex view shows offset 32*i in 8 upper-case hex digits, the
\* bytes RawLog[32i : min(32i+32, len)] as two-digit hex numbers separated by
\* blanks, and each byte in 0x20..0x7E as its character, any other as '.'
HexRowIsFrame(i) ==
    LET row == HexRow(self, i)
        first == bytes_per_line * i
        last == Min(first + bytes_per_line, Len(raw_bytes))
    IN  /\ Len(row.offset) = 8
        /\ \A k \in 1..8 : IsUpperHex(row.offset[k])
        /\ HexNumber(row.offset, 8) = first
        /\ row.chunk = [k \in 1..(last - first) |-> raw_bytes[first + k]]
        /\ Len(row.hex) = 3 * (last - first) - 1
        /\ \A k \in 1..(last - first) :
              /\ IsUpperHex(row.hex[3 * k - 2]) /\ IsUpperHex(row.hex[3 * k - 1])
              /\ 16 * DigitValue(row.hex[3 * k - 2]) + DigitValue(row.hex[3 * k - 1])
                     = raw_bytes[first + k]
              /\ k > 1 => row.hex[3 * k - 3] = 32
        /\ Len(row.ascii) = last - first
        /\ \A k \in 1..(last - first) :
              row.ascii[k] = IF raw_bytes[first + k] \in 32..126
                             THEN raw_bytes[first + k] ELSE ChDot

\* C20: in hex mode the view has ceil(len(RawLog)/32) rows, which the scroll
\* range reflects once no refresh is pending; the rows drawn are rows of the
\* view; every row frames its 32 bytes (fewer in the last row) under its
\* offset; the rows in order reproduce RawLog; 40 bytes make two rows of 32
\* and 8 bytes, the second at offset 00000020
C20_HexFraming ==
    view_mode = "HEX_STREAM" =>
        LET rows == HexRowCount(self)
        IN  /\ bytes_per_line * rows >= Len(raw_bytes)
            /\ bytes_per_line * (rows - 1) < Len(raw_bytes)
            /\ ~pending_update => sb_max = Max(0, rows - viewport_h \div line_height)
            /\ DOMAIN _paint_hex_stream_ret(self) \subseteq 0..(rows - 1)
            /\ \A i \in DOMAIN _paint_hex_stream_ret(self) :
                  _paint_hex_stream_ret(self)[i] = HexRow(self, i)
            /\ \A i \in 0..(rows - 1) : HexRowIsFrame(i)
            /\ HexBytesShown(rows) = Len(raw_bytes)
            /\ \A j \in 1..Len(raw_bytes) :
                  HexRow(self, (j - 1) \div bytes_per_line).chunk[((j - 1) % bytes_per_line) + 1]
                      = raw_bytes[j]
            /\ Len(raw_bytes) = 40 =>
                  /\ rows = 2
                  /\ Len(HexRow(self, 0).chunk) = 32
                  /\ Len(HexRow(self, 1).chunk) = 8
                  /\ HexRow(self, 1).offset = <<48, 48, 48, 48, 48, 48, 50, 48>>

\* the hex view of a log of more than one row, scrolled to its last row,
\* which is shorter than a full row and is drawn
C20_Witness ==
    /\ view_mode = "HEX_STREAM"
    /\ ~pending_update
    /\ Len(raw_bytes) > bytes_per_line
    /\ Len(raw_bytes) % bytes_per_line # 0
    /\ (HexRowCount(self) - 1) \in DOMAIN _paint_hex_stream_ret(self)
    /\ \E k \in 1..Len(raw_bytes) : raw_bytes[k] = 127

(***************************************************************************)
(* Copying the selection                                                   *)
(***************************************************************************)
\* the lines of the store from row r on, joined by newlines
RECURSIVE StoreTextFrom(_)
StoreTextFrom(r) ==
    IF r >= Len(lines) THEN <<>>
    ELSE IF r = Len(lines) - 1 THEN LineAt(self, r)
    ELSE LineAt(self, r) \o <<LF>> \o StoreTextFrom(r + 1)

\* where the position (row, col) lies in that text
RECURSIVE TextOffset(_)
TextOffset(pos) ==
    IF pos[1] = 0 THEN Min(pos[2], Len(LineAt(self, 0)))
    ELSE TextOffset(<<pos[1] - 1, Len(LineAt(self, pos[1] - 1))>>) + 1
            + Min(pos[2], Len(LineAt(self, pos[1])))

\* pos comes before other in reading order
Precedes(pos, other) ==
    pos[1] < other[1] \/ (pos[1] = other[1] /\ pos[2] <= other[2])

SelectionLow == IF Precedes(sel_start_pos, sel_end_pos) THEN sel_start_pos ELSE sel_end_pos
SelectionHigh == IF Precedes(sel_start_pos, sel_end_pos) THEN sel_end_pos ELSE sel_start_pos

\* the text of the store between the two ends of the selection
SelectedText ==
    SubSeq(StoreTextFrom(0), TextOffset(SelectionLow) + 1, TextOffset(SelectionHigh))

\* the widget had the drag gone the other way
DraggedBackwards ==
    [self EXCEPT !.sel_start_pos = sel_end_pos, !.sel_end_pos = sel_start_pos]

\* C21: a copy puts on the clipboard the text of the store between the two
\* ends of the selection, the earlier end first (from its column on the first
\* row, up to the later end's column on the last row, whole lines in between,
\* joined by newlines); a drag the other way copies the same text; a missing
\* or empty selection leaves the clipboard as it was
C21_CopyIsSelectedText ==
    [][clipboard' # clipboard =>
          /\ sel_start_pos # None
          /\ sel_end_pos # None
          /\ sel_start_pos # sel_end_pos
          /\ SelectionHigh[1] < Len(lines)
          /\ clipboard' = SelectedText
          /\ clipboard' = copy_selection(DraggedBackwards).clipboard]_vars

\* a selection dragged upwards over three rows has been copied
C21_Witness ==
    /\ sel_start_pos # None
    /\ sel_end_pos # None
    /\ sel_start_pos[1] > sel_end_pos[1] + 1
    /\ SelectionHigh[1] < Len(lines)
    /\ clipboard = SelectedText
    /\ Len(clipboard) > 3

(***************************************************************************)
(* Clearing                                                                *)
(***************************************************************************)
\* the widget s holds nothing and waits for nothing
Cleared(s) ==
    /\ s.lines = <<>>
    /\ s.line_timestamps = <<>>
    /\ s.raw_bytes = <<>>
    /\ s.wrapped_lines_cache = <<>>
    /\ s.filter_cache = <<>>
    /\ s.highlight_cache = <<>>
    /\ s.line_offset = 0
    /\ _get_total_display_lines_ret(s) = 0
    /\ s.sel_start_pos = None
    /\ s.sel_end_pos = None
    /\ s.sb_max = 0
    /\ s.sb_value = 0
    /\ ~s.pending_update
    /\ ~s.timer_active

\* C22: from every reachable state clear() leaves, in one step, no lines, no
\* timestamps, no raw bytes, empty wrap, filter and highlight caches, line
\* offset 0, a total display row count of 0, no selection, scroll range and
\* value 0, and no pending refresh (the timer an append armed is stopped)
C22_ClearResetsEverything == Cleared(clear(self))

\* a viewer with lines, all three caches filled, a selection, a scrolled view
\* and a refresh pending, which clear() resets
C22_Witness ==
    /\ lines # <<>>
    /\ wrapped_lines_cache # <<>>
    /\ filter_cache # <<>>
    /\ highlight_cache # <<>>
    /\ sel_start_pos # None
    /\ sb_value > 0
    /\ timer_active
    /\ pending_update
    /\ Cleared(clear(self))

(***************************************************************************)
(* Pointers outside the content                                            *)
(***************************************************************************)
\* the rows whose current text passes the current filter
PassingRows == {i \in Rows : ColdPasses(self, LineAt(self, i))}
FirstPassing == CHOOSE i \in PassingRows : \A j \in PassingRows : i <= j
LastPassing == CHOOSE i \in PassingRows : \A j \in PassingRows : j <= i

\* display rows below the content, display rows above it, and every row tried
RowsBelow == {ColdSum(self, 0, Len(lines)), ColdSum(self, 0, Len(lines)) + 1}
RowsAbove == {-2, -1}
RowsTried == -2..(ColdSum(self, 0, Len(lines)) + 1)

\* horizontal pointer positions, relative to the start of the text
PointerColumns == {0, 3}

\* the position a pointer at display row d and column rel_x maps to
PointerAt(d, rel_x) == PosAt(_display_row_to_source_row_col(self, d), d, rel_x).ret

\* C23: a display row at or beyond the total display row count maps to the
\* end of the last line that passes the filter, a display row above the
\* content to the start of the first line that passes the filter, and with a
\* non-empty store the source row returned is always an index of the store
C23_OutsideClampsToContent ==
    /\ PassingRows # {} =>
          /\ \A d \in RowsBelow :
                /\ _display_row_to_source_row_col(self, d).ret
                      = <<LastPassing, Len(LineAt(self, LastPassing))>>
                /\ \A rel_x \in PointerColumns :
                      PointerAt(d, rel_x) = <<LastPassing, Len(LineAt(self, LastPassing))>>
          /\ \A d \in RowsAbove : \A rel_x \in PointerColumns :
                PointerAt(d, rel_x) = <<FirstPassing, 0>>
    /\ lines # <<>> =>
          \A d \in RowsTried : \A rel_x \in PointerColumns :
              /\ _display_row_to_source_row_col(self, d).ret[1] \in Rows
              /\ PointerAt(d, rel_x)[1] \in Rows

\* the same with the filter results and row counts the widget itself reports
ShownRows == {i \in Rows : RowPasses(self, i)}
C23_AsTheWidgetSees ==
    /\ ShownRows # {} =>
          LET last == CHOOSE i \in ShownRows : \A j \in ShownRows : j <= i
              first == CHOOSE i \in ShownRows : \A j \in ShownRows : i <= j
              total == SumRows(self, 0, Len(lines))
          IN  /\ \A d \in {total, total + 1} : \A rel_x \in PointerColumns :
                    /\ _display_row_to_source_row_col(self, d).ret = <<last, Len(LineAt(self, last))>>
                    /\ PointerAt(d, rel_x) = <<last, Len(LineAt(self, last))>>
              /\ \A d \in RowsAbove : \A rel_x \in PointerColumns :
                    PointerAt(d, rel_x) = <<first, 0>>
    /\ lines # <<>> =>
          \A d \in RowsTried : \A rel_x \in PointerColumns :
              PointerAt(d, rel_x)[1] \in Rows

(***************************************************************************)
(* Going to a line that is not there                                       *)
(***************************************************************************)
\* line numbers below 1 and beyond the line count
OutOfRangeLineNos == {-1, 0, Len(lines) + 1, Len(lines) + 2}

\* the valid line number nearest to line_no
NearestLineNo(line_no) == IF line_no < 1 THEN 1 ELSE Len(lines)

\* C24 as stated: goto_line with a line number beyond the line count or below
\* 1 moves the current line and the scroll position to the nearest valid line
C24_OutOfRangeGotoClamps ==
    lines # <<>> =>
        \A line_no \in OutOfRangeLineNos :
            /\ goto_line(self, line_no).current_line_index = NearestLineNo(line_no) - 1
            /\ goto_line(self, line_no).sb_value
                  = goto_line(self, NearestLineNo(line_no)).sb_value

\* C24: goto_line with a line number beyond the line count or below 1 does
\* not raise: it returns False and leaves the current line, the scroll
\* position and everything else as they were
C24_OutOfRangeGotoIsRefused ==
    \A line_no \in OutOfRangeLineNos :
        /\ ~goto_line_ret(self, line_no)
        /\ goto_line(self, line_no) = self

\* a jump to the last line has been made and lines have arrived since, so
\* that a refused jump leaves a current line and a scroll position behind
C24_Witness ==
    /\ current_line_index >= 0
    /\ current_line_index < Len(lines) - 1
    /\ sb_value > 0
    /\ goto_line(self, Len(lines) + 1) = self

(***************************************************************************)
(* Reporting an invalid filter pattern                                     *)
(***************************************************************************)
\* what the caller of a filter setter has in hand afterwards: the value the
\* call returned and what the widget's accessor answers
CallerSees(ret, s) == <<ret, is_filter_use_regex(s)>>

InvalidPatterns == {p \in FilterStrings : p # <<>> /\ RegexInvalid(p)}
ValidPatterns == {p \in FilterStrings : p # <<>> /\ ~RegexInvalid(p)}

\* the widget with p as its pattern string
WithPattern(p) == [self EXCEPT !.filter_regex_str = p]

\* C25: setting an invalid regex as the filter pattern shows to the caller:
\* what the caller has after set_filter_pattern in regex mode, and after
\* set_filter_use_regex(True) on a pattern string, differs between an invalid
\* and a valid pattern
C25_InvalidPatternIsReported ==
    \A bad \in InvalidPatterns : \A good \in ValidPatterns :
        /\ filter_use_regex =>
              CallerSees(set_filter_pattern_ret(self, bad), set_filter_pattern(self, bad))
                  # CallerSees(set_filter_pattern_ret(self, good), set_filter_pattern(self, good))
        /\ ~filter_use_regex =>
              CallerSees(set_filter_use_regex_ret(WithPattern(bad), TRUE),
                         set_filter_use_regex(WithPattern(bad), TRUE))
                  # CallerSees(set_filter_use_regex_ret(WithPattern(good), TRUE),
                               set_filter_use_regex(WithPattern(good), TRUE))

(***************************************************************************)
(* Caches under append                                                     *)
(***************************************************************************)
\* the key of row i in the filter and highlight caches, and in the first
\* component of the keys of the wrap cache
KeyOf(i) == i + line_offset

\* the cache keys of the three caches that belong to the key row k
WrapKeysOf(cache, k) == {key \in DOMAIN cache : key[1] = k}
RowKeysOf(cache, k) == {key \in DOMAIN cache : key = k}

\* the step extends the last line of the store in place
ExtendsLastLine ==
    /\ lines # <<>>
    /\ Len(lines') >= Len(lines)
    /\ lines'[Len(lines)] # lines[Len(lines)]

\* the entries of every key row but k are the same before and after the step
OthersUntouched(k) ==
    /\ \A key \in (DOMAIN wrapped_lines_cache \cup DOMAIN wrapped_lines_cache') :
          key[1] # k =>
              /\ key \in DOMAIN wrapped_lines_cache
              /\ key \in DOMAIN wrapped_lines_cache'
              /\ wrapped_lines_cache'[key] = wrapped_lines_cache[key]
    /\ \A key \in (DOMAIN filter_cache \cup DOMAIN filter_cache') :
          key # k =>
              /\ key \in DOMAIN filter_cache
              /\ key \in DOMAIN filter_cache'
              /\ filter_cache'[key] = filter_cache[key]
    /\ \A key \in (DOMAIN highlight_cache \cup DOMAIN highlight_cache') :
          key # k =>
              /\ key \in DOMAIN highlight_cache
              /\ key \in DOMAIN highlight_cache'
              /\ highlight_cache'[key] = highlight_cache[key]

\* an append that evicts nothing
IsPlainAppendStep == Len(session') > Len(session) /\ line_offset' = line_offset

\* C26: an append that does not trim and extends the last line in place
\* leaves no entry of that line in the wrap, filter and highlight caches, and
\* an append that does not trim leaves the entries of every other line as
\* they were
C26_AppendInvalidatesAffected ==
    [][IsPlainAppendStep =>
          /\ ExtendsLastLine =>
                /\ WrapKeysOf(wrapped_lines_cache', KeyOf(Len(lines) - 1)) = {}
                /\ RowKeysOf(filter_cache', KeyOf(Len(lines) - 1)) = {}
                /\ RowKeysOf(highlight_cache', KeyOf(Len(lines) - 1)) = {}
          /\ OthersUntouched(KeyOf(Len(lines) - 1))]_vars

\* the half that holds: an append that does not trim leaves the entries of
\* the lines it does not extend as they were
C26_OtherLinesUntouched ==
    [][IsPlainAppendStep => OthersUntouched(KeyOf(Len(lines) - 1))]_vars

(***************************************************************************)
(* The filter cache and the lines it speaks of                             *)
(***************************************************************************)
\* C27: with filtering enabled and a valid pattern, the result the filter
\* engine gives for a line of the store, memoized or not, is the filter
\* predicate evaluated on the line's current text
C27_MemoIsPredicate ==
    filter_enabled /\ filter_pattern.kind # "none" =>
        \A i \in Rows :
            /\ _line_matches_filter_ret(self, LineAt(self, i), i)
                  = FilterEval(self, LineAt(self, i)).result
            /\ KeyOf(i) \in DOMAIN filter_cache =>
                  filter_cache[KeyOf(i)] = FilterEval(self, LineAt(self, i)).result

\* the half that holds: an entry is right when it is stored (the filter
\* setters empty the cache, so every entry was stored under the current filter)
C27_EntriesStartRight ==
    [][filter_enabled /\ filter_pattern.kind # "none"
          /\ filter_enabled' /\ filter_pattern' = filter_pattern =>
          \A i \in 0..(Len(lines') - 1) :
              (i + line_offset') \in DOMAIN filter_cache'
                  /\ (i + line_offset') \notin DOMAIN filter_cache =>
                      filter_cache'[i + line_offset']
                          = FilterEval(self, lines'[i + 1]).result]_vars

(***************************************************************************)
(* The cached total under a change of width                                *)
(***************************************************************************)
\* the step changes the width available to the text and leaves the lines
WidthChangeStep ==
    /\ _get_available_width(self)' # _get_available_width(self)
    /\ lines' = lines

\* C28: after a step that changes the available text width (a resize of the
\* viewport, a toggle of the timestamp column), _get_total_display_lines()
\* returns the display row count of the lines at the new width
C28_TotalFollowsWidth ==
    [][WidthChangeStep =>
          _get_total_display_lines_ret(self)' = ColdSum(self, 0, Len(lines))']_vars

\* the half that holds: between changes of width, over lines that arrive
\* whole, the total returned is the row count at the width it was computed for
C28_TotalFollowsAppends ==
    [][_get_available_width(self)' = _get_available_width(self)
          /\ _get_total_display_lines_ret(self) = ColdSum(self, 0, Len(lines)) =>
          _get_total_display_lines_ret(self)' = ColdSum(self, 0, Len(lines))']_vars

(***************************************************************************)
(* Caches under trim                                                       *)
(***************************************************************************)
\* a cache keyed by line after a trim of the keys lo .. hi - 1: the entries
\* of these keys are gone, every other entry is there with the value it had
PurgedExactly(cache, cache1, lo, hi) ==
    /\ \A k \in DOMAIN cache1 : ~(lo <= k /\ k < hi)
    /\ \A k \in DOMAIN cache :
          ~(lo <= k /\ k < hi) => k \in DOMAIN cache1 /\ cache1[k] = cache[k]

\* the same for the wrap cache, whose keys are (line key, width)
WrapPurgedExactly(cache, cache1, lo, hi) ==
    /\ \A k \in DOMAIN cache1 : ~(lo <= k[1] /\ k[1] < hi)
    /\ \A k \in DOMAIN cache :
          ~(lo <= k[1] /\ k[1] < hi) => k \in DOMAIN cache1 /\ cache1[k] = cache[k]

\* the lines that survive the eviction of the first evicted lines of before
\* are, in order, the lines of the store after the step, and row r of before
\* is found after the step under the key it had
KeysFollowLines(before, evicted) ==
    /\ lines' = SubSeq(before, evicted + 1, Len(before))
    /\ lines' # <<>> => line_offset' = line_offset + evicted

\* C29: a trim removes from the wrap, filter and highlight caches exactly the
\* entries whose key lies in the evicted range; every entry of a surviving
\* line stays as it was, and the key a surviving line is looked up under
\* after the shift is the key its entry was stored under
C29_TrimPurgesEvicted ==
    [][IsTrimStep =>
          /\ WrapPurgedExactly(wrapped_lines_cache, wrapped_lines_cache',
                               line_offset, line_offset + EvictedCount)
          /\ PurgedExactly(filter_cache, filter_cache',
                           line_offset, line_offset + EvictedCount)
          /\ PurgedExactly(highlight_cache, highlight_cache',
                           line_offset, line_offset + EvictedCount)
          /\ KeysFollowLines(TrimmedFrom, EvictedCount)]_vars

\* after a trim the store holds surviving lines with entries in all three caches
C29_Witness ==
    /\ line_offset > 0
    /\ \E i \in Rows :
          /\ WrapKeysOf(wrapped_lines_cache, KeyOf(i)) # {}
          /\ KeyOf(i) \in DOMAIN filter_cache
          /\ KeyOf(i) \in DOMAIN highlight_cache

\* ---------------------------------------------------------------------------
\* Cache keys and the lines in the store
\* ---------------------------------------------------------------------------

\* the keys of the lines the store holds
LiveKeys == line_offset .. (line_offset + Len(lines) - 1)

\* the keys the three caches hold entries under
CachedKeys ==
    {k[1] : k \in DOMAIN wrapped_lines_cache}
        \cup DOMAIN filter_cache \cup DOMAIN highlight_cache

\* C30: in every reachable state every key of the wrap, filter and highlight
\* caches is the key of a line in the store:
\* line_offset <= key < line_offset + len(lines)
C30_KeysAreLive == CachedKeys \subseteq LiveKeys

(***************************************************************************)
(* The source rows of a paint                                              *)
(***************************************************************************)
\* the display-row interval [first_display_row, last_display_row) of a paint
PaintFirst == sb_value
PaintLast == sb_value + CeilDiv(viewport_h, line_height) + 1

\* the filter-passing rows whose wrap-segment range meets [first, last), by
\* the widget's own row counts
Intersecting(s, first, last) ==
    {i \in 0..(Len(s.lines) - 1) :
        /\ RowPasses(s, i)
        /\ DisplayStarts(s)[i] < last
        /\ DisplayStarts(s)[i] + RowCount(s, i) > first}

\* the filter-passing rows of the range a walk has returned
PassingIn(v) ==
    {i \in v.ret[1]..(v.ret[2] - 1) : i < Len(v.s.lines) /\ RowPasses(v.s, i)}

\* the range starts at the row holding first, with the display rows before it
StartsRight(v, first, last) ==
    Intersecting(v.s, first, last) # {} =>
        /\ v.ret[1] = Least(Intersecting(v.s, first, last))
        /\ v.ret[3] = DisplayStarts(v.s)[v.ret[1]]

\* C31: for the paint interval [first_display_row, last_display_row) the
\* range of _find_visible_source_rows starts at the row containing
\* first_display_row with the right display offset, and its filter-passing
\* rows are exactly the rows whose wrap-segment range meets the interval
C31_VisibleRowsExact ==
    /\ StartsRight(_find_visible_source_rows(self, PaintFirst, PaintLast),
                   PaintFirst, PaintLast)
    /\ PassingIn(_find_visible_source_rows(self, PaintFirst, PaintLast))
           = Intersecting(self, PaintFirst, PaintLast)

\* no row that meets the interval is missed, and the range starts right
C31_NoVisibleRowMissed ==
    /\ StartsRight(_find_visible_source_rows(self, PaintFirst, PaintLast),
                   PaintFirst, PaintLast)
    /\ Intersecting(self, PaintFirst, PaintLast)
           \subseteq PassingIn(_find_visible_source_rows(self, PaintFirst, PaintLast))

\* the rows of which the paint draws a display row are the rows that meet it
C31_DrawnRowsExact ==
    DrawnRows(_find_visible_source_rows(self, PaintFirst, PaintLast),
              PaintFirst, PaintLast)
        = Intersecting(self, PaintFirst, PaintLast)

(***************************************************************************)
(* Coalescing of refreshes                                                 *)
(***************************************************************************)
\* the characters of a text that are not line boundaries
RECURSIVE Printable(_)
Printable(text) ==
    IF text = <<>> THEN 0
    ELSE (IF IsLineBreak(Head(text)) THEN 0 ELSE 1) + Printable(Tail(text))

\* the characters the lines hold
RECURSIVE CharsIn(_)
CharsIn(ls) == IF ls = <<>> THEN 0 ELSE Len(Head(ls)) + CharsIn(Tail(ls))

\* the chunk of an append step
AppendedChunk == SubSeq(session', Len(session) + 1, Len(session'))

\* a timeout of the refresh timer: the timer stops and the store is as it was
IsTimeoutStep ==
    /\ timer_active /\ ~timer_active' /\ timer_starts' = 0
    /\ raw_bytes' = raw_bytes /\ lines' = lines
    /\ line_offset' = line_offset /\ max_lines' = max_lines

RangeIsCurrent ==
    sb_max = Max(0, _get_total_display_lines_ret(self) - viewport_h \div line_height)

\* C33: the pending flag is set exactly while the timer is armed; an append
\* leaves a refresh pending or, when it trimmed, has recomputed the scroll
\* range from the lines it leaves; a pending refresh eventually is pending no
\* more, and the step that ends it leaves the scroll range recomputed from the
\* lines of that moment
C33_NoRefreshLost ==
    /\ [](pending_update <=> timer_active)
    /\ [][Len(session') > Len(session) => pending_update' \/ RangeIsCurrent']_vars
    /\ [][pending_update /\ ~pending_update' => RangeIsCurrent']_vars
    /\ (pending_update ~> ~pending_update)

\* the refresh an append has scheduled has run: lines, a scroll range above 0
\* computed from them, nothing pending
C33_Witness ==
    /\ session # <<>>
    /\ ~pending_update /\ ~timer_active
    /\ ~total_display_lines_dirty
    /\ sb_max > 0
    /\ RangeIsCurrent

(***************************************************************************)
(* The scroll position while lines arrive                                  *)
(***************************************************************************)
\* the user has left the end of the log: auto-scroll is off and the scroll
\* bar is more than one row above its maximum
ScrolledAway == ~auto_scroll /\ sb_value < sb_max - 1

FilterSettings(s) ==
    <<s.filter_regex_str, s.filter_use_regex, s.filter_enabled, s.filter_pattern>>

\* the filter is off: disabled, or without a pattern
FilterOff == ~filter_enabled \/ filter_pattern.kind = "none"

\* calling a setter twice with one value is calling it once, and the pattern
\* setter and the mode setter commute
SettersCommute(s) ==
    /\ \A p \in FilterStrings :
          /\ set_filter_pattern(set_filter_pattern(s, p), p) = set_filter_pattern(s, p)
          /\ \A b \in BOOLEAN :
                FilterSettings(set_filter_use_regex(set_filter_pattern(s, p), b))
                    = FilterSettings(set_filter_pattern(set_filter_use_regex(s, b), p))
    /\ \A b \in BOOLEAN :
          /\ set_filter_use_regex(set_filter_use_regex(s, b), b) = set_filter_use_regex(s, b)
          /\ set_filter_enabled(set_filter_enabled(s, b), b) = set_filter_enabled(s, b)

\* C35: the pattern in force is the last pattern string compiled under the
\* last mode (the string kept from an invalid regex is in force as a literal
\* once regex mode is switched off), the setters are idempotent and commute,
\* and the filter cache holds results of the filter in force only: it is empty
\* while the filter is off, a step that changes a setting leaves in it only
\* results of the new settings, and any other step adds only such results
C35_LastSettingsRule ==
    /\ [](/\ filter_pattern = CompileFilter(filter_regex_str, filter_use_regex)
          /\ FilterOff => filter_cache = <<>>
          /\ SettersCommute(self))
    /\ [][\A k \in DOMAIN filter_cache' :
             FilterSettings(self)' # FilterSettings(self) \/ k \notin DOMAIN filter_cache
                 => filter_cache'[k] = ColdPasses(self', LineAt(self', k - line_offset'))]_vars

\* an invalid regex was entered and regex mode then switched off: the string
\* filters as a literal, with results in the cache
C35_Witness ==
    /\ filter_regex_str = <<ChLBracket>>
    /\ ~filter_use_regex
    /\ filter_pattern = [kind |-> "str", src |-> <<ChLBracket>>]
    /\ filter_enabled
    /\ filter_cache # <<>>

(***************************************************************************)
(* The occurrences of one rule                                             *)
(***************************************************************************)
\* the spans of a list are pairwise disjoint
Disjoint(matches) ==
    \A j, k \in 1..Len(matches) :
        j < k => matches[j][2] <= matches[k][1] \/ matches[k][2] <= matches[j][1]

\* C36: on every line the occurrences one highlight rule reports do not
\* overlap each other, whether the rule is a plain keyword or a regex
C36_OccurrencesDisjoint ==
    \A i \in TextRows : \A r \in 1..Len(highlight_rules) :
        Disjoint(RuleMatches(highlight_rules[r], LineAt(self, i)))

\* the occurrences of a regex rule do not overlap each other
C36_RegexOccurrencesDisjoint ==
    \A i \in TextRows : \A r \in 1..Len(highlight_rules) :
        highlight_rules[r].use_regex
            => Disjoint(RuleMatches(highlight_rules[r], LineAt(self, i)))

(***************************************************************************)
(* The newest line under trim                                              *)
(***************************************************************************)
\* C37: after every append, and after every set_max_lines on a store that
\* holds lines, the store holds lines and its last line is the newest line:
\* the last line of the list before the trim
C37_NewestLineSurvives ==
    [][IsAppendStep \/ lines # <<>> =>
          /\ lines' # <<>>
          /\ lines'[Len(lines')] = TrimmedFrom[Len(TrimmedFrom)]]_vars

\* a trim that leaves lines leaves the newest line last
C37_SurvivorsEndWithNewest ==
    [][IsTrimStep /\ lines' # <<>> =>
          lines'[Len(lines')] = TrimmedFrom[Len(TrimmedFrom)]]_vars

(***************************************************************************)
(* Lines and their timestamps                                              *)
(***************************************************************************)
\* after an append that built the list built and evicted its first evicted
\* lines, every line left has the timestamp it had before, and a line the
\* append created has the time of the append
StampsAfterAppend(built, evicted) ==
    /\ Len(lines') = Len(built) - evicted
    /\ \A j \in 1..Len(lines') :
          line_timestamps'[j] = IF j + evicted <= Len(lines)
                                THEN line_timestamps[j + evicted]
                                ELSE now

\* after a trim of evicted lines outside an append, lines and timestamps have
\* lost the same leading entries
StampsAfterTrim(evicted) ==
    /\ lines' = SubSeq(lines, evicted + 1, Len(lines))
    /\ line_timestamps' = SubSeq(line_timestamps, evicted + 1, Len(line_timestamps))

\* C38: there are as many timestamps as lines; an append leaves every line it
\* found, the last line it extends in place included, with the timestamp it
\* had, and gives every line it creates its own time; a trim removes the same
\* leading entries from both lists; a text installed in one piece is stamped
\* with the time of the call; and nothing else changes a timestamp
C38_TimestampsPaired ==
    /\ [](Len(line_timestamps) = Len(lines))
    /\ [][Len(session') > Len(session) =>
             StampsAfterAppend(AppendedLines(self, AppendedChunk),
                               Len(AppendedLines(self, AppendedChunk)) - Len(lines'))]_vars
    /\ [][Len(session') = Len(session) /\ IsTrimStep =>
             StampsAfterTrim(Len(lines) - Len(lines'))]_vars
    /\ [][Len(session') <= Len(session) /\ ~IsTrimStep =>
             \/ line_timestamps' = line_timestamps /\ lines' = lines
             \/ line_timestamps' = [j \in 1..Len(lines') |-> now]]_vars

\* lines stamped at different times have survived a trim together
C38_Witness ==
    /\ line_offset > 0
    /\ \E i \in 1..(Len(lines) - 1) : line_timestamps[i] < line_timestamps[i + 1]

(***************************************************************************)
(* The current line across a clear                                         *)
(***************************************************************************)
\* a step of clear() on a log that holds text
IsClearStep == raw_bytes # <<>> /\ raw_bytes' = <<>>

\* C39: after clear() no index-based state refers to a line:
\* current_line_index is -1, so that a line appended after the clear is not
\* painted as the current row because of a goto_line made before the clear
C39_ClearForgetsCurrentLine == [][IsClearStep => current_line_index' = -1]_vars

\* what clear() does to it: nothing, so that line 1 of the next log is the
\* current line when line 1 was the current line of the cleared one
C39_ClearKeepsCurrentLine ==
    [][IsClearStep => current_line_index' = current_line_index]_vars

(***************************************************************************)
(* Highlights on wrapped lines                                             *)
(***************************************************************************)
\* the sum of the lengths of the display rows before row wrap_idx
RECURSIVE CharsBefore(_, _)
CharsBefore(wrapped_lines, wrap_idx) ==
    IF wrap_idx = 0 THEN 0
    ELSE CharsBefore(wrapped_lines, wrap_idx - 1) + Len(wrapped_lines[wrap_idx])

\* the source rows the next paint draws
RowsInPaint ==
    DrawnRows(_find_visible_source_rows(self, PaintFirst, PaintLast), PaintFirst, PaintLast)

\* the characters of display row wrap_idx of source row src_row that lie in a
\* span of the match list the paint uses
SpanChars(src_row, wrap_idx) ==
    LET line_text == LineAt(self, src_row)
        wrapped_lines == _get_wrapped_lines_ret(self, line_text, src_row)
        matches == _find_highlight_matches_ret(self, line_text, src_row + line_offset)
    IN  {k \in 0..(Len(wrapped_lines[wrap_idx + 1]) - 1) :
            \E m \in 1..Len(matches) :
                /\ matches[m][1] <= CharsBefore(wrapped_lines, wrap_idx) + k
                /\ CharsBefore(wrapped_lines, wrap_idx) + k < matches[m][2]}

\* C40: on every display row of a painted line the characters drawn as
\* highlighted are those of the row that lie in a highlight span of the line,
\* the row starting at the sum of the lengths of the rows before it
C40_SpansOnTheirSegments ==
    highlight_enabled /\ highlight_rules # <<>> =>
        \A src_row \in RowsInPaint :
            \A wrap_idx \in 0..(_get_display_line_count_ret(self, src_row) - 1) :
                HighlightedChars(self, src_row, wrap_idx) = SpanChars(src_row, wrap_idx)

\* the same of lines whose display rows all hold as many characters as the
\* widget font fits in the text area, the last row apart
C40_SpansOnFullSegments ==
    highlight_enabled /\ highlight_rules # <<>> =>
        \A src_row \in RowsInPaint :
            LET wrapped_lines == _get_wrapped_lines_ret(self, LineAt(self, src_row), src_row)
            IN  (\A i \in 1..(Len(wrapped_lines) - 1) :
                     Len(wrapped_lines[i]) = _get_chars_per_line(self))
                => \A wrap_idx \in 0..(Len(wrapped_lines) - 1) :
                       HighlightedChars(self, src_row, wrap_idx) = SpanChars(src_row, wrap_idx)

====
